---- MODULE Spec2Model ----
(***************************************************************************)
(* Offline catalog mirror, price polling and price-history query of the    *)
(* CS:GO skins app: DataProvider (context/DataContext), database/operations *)
(* and schema, services/supabaseService and components/PriceChart.          *)
(*                                                                         *)
(* Every asynchronous function is a task whose position (pc) is the await   *)
(* it is suspended at; one action is the code that runs from one await to   *)
(* the next.  A SQL statement takes effect in the step that resolves its    *)
(* runAsync.  Times are in seconds (the code counts milliseconds).          *)
(*                                                                         *)
(* SpecSync:    catalog sync, calls of loadData / syncFromAPI one at a time *)
(* SpecCatalog: the same calls overlapping                                  *)
(* SpecPrices:  the polling effects and loadPrices, calls overlapping       *)
(* SpecQuery:   PriceChart.loadPriceHistory over the cloud replica          *)
(* SpecPoll:    calls of loadPrices one at a time, any feed payload         *)
(* SpecScheduler: mount, re-run and unmount of the polling effect           *)
(* SpecFaults:  calls of loadPrices whose store calls may reject            *)
(* SpecMigration: migrateFromAsyncStorage beside the initial loadData      *)
(* SpecFavorites: one toggleFavorite at a time beside one sync at a time   *)
(* SpecToggles: calls of toggleFavorite that overlap                       *)
(***************************************************************************)
EXTENDS Integers, Sequences, FiniteSets, TLC

\* ------------------------------------------------------------------ bounds
\* Catalog ids are 1..MaxId; a remote payload holds at most MaxId records.
MaxId == 2
\* At most MaxInFlight calls of loadData / syncFromAPI overlap.
MaxInFlight == 2

\* SQL NULL in an integer column / a missing app_metadata row.
NullInt == -1
\* JavaScript null / undefined in a string position.
Null == "null"

Ids == 1..MaxId

\* ------------------------------------------------------- catalog: data
\* Descriptions a remote record may carry: missing, or a text.
RemoteDescriptions == {Null, "v2"}
\* Description of rows stored before the run begins.
StoredDescription == "v1"

\* A remote payload: every record of one fetch carries the same description
\* version; records come in ascending id order and ids may repeat.
RECURSIVE SeqsUpTo(_, _)
SeqsUpTo(S, n) ==
  IF n = 0 THEN {<<>>}
  ELSE LET shorter == SeqsUpTo(S, n - 1)
       IN  shorter \cup
           {Append(q, x) : q \in {r \in shorter : Len(r) = n - 1}, x \in S}

Payloads ==
  {[k \in 1..Len(s) |-> [id |-> s[k], description |-> d]] :
      s \in {q \in SeqsUpTo(Ids, MaxId) : \A k \in 1..(Len(q) - 1) : q[k] <= q[k + 1]},
      d \in RemoteDescriptions}

\* Tables of the items schema: id is the PRIMARY KEY, isFavorite INTEGER 0/1.
RECURSIVE TablesOver(_)
TablesOver(n) ==
  IF n = 0 THEN {<<>>}
  ELSE LET below == TablesOver(n - 1)
       IN  below \cup
           {Append(t, [id |-> n, description |-> StoredDescription, isFavorite |-> f]) :
              t \in below, f \in {0, 1}}

InitTables == TablesOver(MaxId)

\* ------------------------------------------------------- catalog: SQL
RowIds(tbl) == {tbl[k].id : k \in 1..Len(tbl)}

\* (SELECT isFavorite FROM items WHERE id = ?)
SelectIsFavorite(tbl, id) ==
  IF \E k \in 1..Len(tbl) : tbl[k].id = id
  THEN (CHOOSE r \in {tbl[k] : k \in 1..Len(tbl)} : r.id = id).isFavorite
  ELSE NullInt

Coalesce(a, b) == IF a # NullInt THEN a ELSE b

\* DELETE FROM items without its WHERE.
DeleteAll(tbl, id) == <<>>

DeleteWhereId(tbl, id) ==
  LET keep(r) == r.id # id IN SelectSeq(tbl, keep)

\* Faulty variants of the upsert (a plain INSERT; a DELETE inside the loop).
InsertKeepingOld(tbl, row) == Append(tbl, row)
InsertAfterClear(tbl, row) == <<row>>

\* INSERT OR REPLACE INTO items: the row holding the primary key is deleted,
\* the new row is inserted.
InsertOrReplace(tbl, row) == Append(DeleteWhereId(tbl, row.id), row)

\* x || "" of the description columns.
OrEmpty(x) == IF x = Null THEN "" ELSE x

\* processedItems of syncFromAPI: no isFavorite field is set.
ProcessItem(skin) ==
  [id |-> skin.id, description |-> OrEmpty(skin.description), isFavorite |-> FALSE]

ProcessItems(apiData) == [k \in 1..Len(apiData) |-> ProcessItem(apiData[k])]

\* Faulty variant: the stored flag is not read back.
UpsertItemDroppingFavorite(tbl, item) ==
  InsertOrReplace(tbl, [id |-> item.id,
                        description |-> OrEmpty(item.description),
                        isFavorite |-> IF item.isFavorite THEN 1 ELSE 0])

\* One iteration of insertItems: INSERT OR REPLACE with
\* COALESCE((SELECT isFavorite FROM items WHERE id = ?), item.isFavorite ? 1 : 0).
UpsertItem(tbl, item) ==
  InsertOrReplace(tbl, [id |-> item.id,
                        description |-> OrEmpty(item.description),
                        isFavorite |-> Coalesce(SelectIsFavorite(tbl, item.id),
                                                IF item.isFavorite THEN 1 ELSE 0)])

\* parseItemRow: isFavorite becomes a boolean.
parseItemRow(row) ==
  [id |-> row.id, description |-> row.description, isFavorite |-> row.isFavorite # 0]

\* getAllItems (the ORDER BY is not modelled: the result is the set of rows).
getAllItems(tbl) == {parseItemRow(tbl[k]) : k \in 1..Len(tbl)}

\* favMap of loadData.
FavMap(dbItems) == {r.id : r \in {x \in dbItems : x.isFavorite}}

\* ------------------------------------------------------- catalog: state
\* The call sites of loadData and syncFromAPI, one running call each:
\*   effect     loadData() of the [dbInitialized] effect
\*   reconnect  loadData() of the NetInfo listener
\*   retry      retryLoadData (ListScreen's retry button)
\*   background syncFromAPI() started, not awaited, by a warm loadData
\*   manual     syncFromAPI() of ListScreen.handleRefresh
LoadCallers == {"effect", "reconnect", "retry"}
SyncCallers == {"background", "manual"}
Callers == LoadCallers \cup SyncCallers

\* Messages of the errors thrown on the sync path.
ErrNoInternet == "No internet connection. Please check your network and try again."
ErrNoData == "No data received from API"
ErrNoCache == "No cached data available. Please connect to internet to download data."
ErrNetworkShown == "Network error. Please check your internet connection and try again."
\* What fetchSkinsFromAPI rethrows: a bad HTTP status, or fetch's own TypeError.
FetchErrors == {"HTTP error! status: 500", "Failed to fetch", "Network request failed"}

\* error.includes("Network") of the NetInfo listener (case-sensitive).
IncludesNetwork(e) == e \in {ErrNetworkShown, "Network request failed"}

\* errorMessage of syncFromAPI's catch.
SyncErrorMessage(msg) == IF msg = "Failed to fetch" THEN ErrNetworkShown ELSE msg

\* hoursSinceSync > 24, the clock counting seconds; a lastSync of null or 0
\* is falsy and counts as 999 hours.
StaleSeconds == 24 * 60 * 60
\* A staleness test that always asks for a resync.
IsStaleAlways(lastSync, t) == TRUE

IsStale(lastSync, t) ==
  IF lastSync = NullInt \/ lastSync = 0 THEN TRUE ELSE t - lastSync > StaleSeconds

VARIABLES
  items,        \* table items, in rowid order
  lastSync,     \* app_metadata row "lastSync" (NullInt: no row)
  now,          \* Date.now(), in seconds
  netUp,        \* what NetInfo.fetch() reports
  remote,       \* what the catalog API serves
  isConnected,  \* DataProvider state
  listenerConnected, \* isConnected of the render the NetInfo listener closes over
  effectRan,    \* the [dbInitialized] effect has run
  error,        \* DataProvider state
  isLoading,    \* DataProvider state
  ctxItems,     \* DataProvider state items
  favorites,    \* DataProvider state favorites (the ids mapped to true)
  task,         \* per call site: the running call
  firstSync     \* ids and row count left by the first successful sync (observer)

catalogVars == <<items, lastSync, now, netUp, remote, isConnected, listenerConnected,
                 effectRan, error, isLoading, ctxItems, favorites, task, firstSync>>

VARIABLES
  price_data,          \* table price_data, in rowid order
  price_history,       \* table price_history, in insertion (AUTOINCREMENT id) order
  lastPriceUpdateMeta, \* app_metadata row "lastPriceUpdate" (NullInt: no row)
  priceData,           \* DataProvider state (key -> price info; empty: null)
  lastPriceUpdate,     \* DataProvider state
  poll,                \* per call site of loadPrices: the running call
  pollMounted,         \* dbInitialized is true and the polling effect has run
  timers,              \* the ids of the intervals that are set and not cleared
  priceUpdateInterval, \* the ref priceUpdateInterval.current (NullInt: null)
  appState,            \* appState.current
  supabaseConfigured,  \* isSupabaseConfigured()
  snapshots,           \* cloud table price_snapshots
  fetched,             \* number of price payloads fetched so far (observer)
  latestFetched,       \* per key, the price of the latest fetched payload holding it (observer)
  observed             \* the last poll cycle as an observer of one-at-a-time polls saw it

priceVars == <<price_data, price_history, lastPriceUpdateMeta, priceData, lastPriceUpdate,
               poll, pollMounted, timers, priceUpdateInterval, appState, supabaseConfigured, snapshots,
               fetched, latestFetched, observed>>

\* The catalog's own variables (the clock and the connectivity are shared).
catalogRest == <<items, lastSync, remote, listenerConnected, effectRan, error, isLoading,
                 ctxItems, favorites, task, firstSync>>

\* The price chart and its history query.
VARIABLES query, chart, answered
queryVars == <<query, chart, answered>>

\* The legacy key-value store, its migration, and the favorite toggles.
VARIABLES
  asyncStorage,  \* AsyncStorage: @migration_completed, @csgo_items, @csgo_favorites
  migration,     \* the running call of migrateFromAsyncStorage
  toggles,       \* per slot: a running call of the context's toggleFavorite
  toggleLog      \* what the completed toggles should have left, and the last of them (observer)
sideVars == <<asyncStorage, migration, toggles, toggleLog>>

vars == <<catalogVars, priceVars, queryVars, sideVars>>

\* ------------------------------------------------------- prices: data
\* Market keys of the price feed.
Keys == {"A", "B"}
\* min_price / 100 of a feed entry is 0..MaxPrice.
MaxPrice == 1
\* The clock of a polling run goes up to MaxNow.
MaxNow == 2
\* At most MaxFetches price fetches succeed in a run.
MaxFetches == 2
\* Interval ids are 1..MaxTimers.
MaxTimers == 2
\* At most MaxPolls calls of loadPrices run at once.
MaxPolls == 2

\* priceMap of fetchPriceData, as its Object.entries: one entry per key, in
\* the order of the feed; price and avg are both min_price / 100.
PriceEntry(k, v) == [market_hash_name |-> k, info |-> [price |-> v, avg |-> v]]

PricePayloads ==
  {<<>>}
  \cup {<<PriceEntry(k, v)>> : k \in Keys, v \in 0..MaxPrice}
  \cup {<<PriceEntry("A", v1), PriceEntry("B", v2)>> : v1 \in 0..MaxPrice, v2 \in 0..MaxPrice}

\* a || b || 0 on numbers.
OrElse(a, b) == IF a # 0 THEN a ELSE b

\* priceInfo.f as an operand of ||: an absent field (undefined) is falsy like 0.
Field(info, f) == IF f \in DOMAIN info THEN info[f] ELSE 0

\* priceInfo.price || priceInfo.avg || 0
PriceOf(info) == OrElse(OrElse(Field(info, "price"), Field(info, "avg")), 0)

\* Price maps as savePriceData / savePriceHistory may be handed them: a
\* negative, zero or positive price, or no price field beside an avg.
\* (The negative price is kept apart from NullInt, the observer's "never".)
NegativePrice == NullInt - 1
PriceInfos == {[price |-> v, avg |-> v] : v \in {NegativePrice, 0, 1}} \cup {[avg |-> 1]}
PriceInputs ==
  {<<>>}
  \cup {<<[market_hash_name |-> k, info |-> f]>> : k \in Keys, f \in PriceInfos}
  \cup {<<[market_hash_name |-> "A", info |-> f1], [market_hash_name |-> "B", info |-> f2]>> :
          f1 \in PriceInfos, f2 \in {[price |-> 0, avg |-> 0], [avg |-> 1]}}

\* The running calls of loadPrices: nothing in the code limits them, the
\* model keeps at most MaxPolls of them, one per slot.
PollSlots == 1..MaxPolls

IdlePoll == [pc |-> "idle", prices |-> <<>>, i |-> 0, timestamp |-> 0, histTs |-> 0]

\* The price subsystem before the database is initialised.
NotObserved == [outcome |-> "none", prices |-> <<>>, timestamp |-> 0, histTs |-> 0,
                cleanedAt |-> 0, price_data |-> <<>>, price_history |-> <<>>,
                lastPriceUpdateMeta |-> NullInt,
                started |-> 0, connected |-> TRUE, appState |-> "active",
                lastStart |-> NullInt]

PricesAtRest ==
  /\ observed = NotObserved
  /\ price_data = <<>>
  /\ price_history = <<>>
  /\ lastPriceUpdateMeta = NullInt
  /\ priceData = <<>>
  /\ lastPriceUpdate = NullInt
  /\ poll = [t \in PollSlots |-> IdlePoll]
  /\ pollMounted = FALSE
  /\ timers = {}
  /\ priceUpdateInterval = NullInt
  /\ appState = "active"
  /\ supabaseConfigured = FALSE
  /\ snapshots = <<>>
  /\ fetched = 0
  /\ latestFetched = [k \in Keys |-> NullInt]

\* ------------------------------------------------------- migration, toggles: data
\* At most MaxToggles calls of toggleFavorite are running at once.
MaxToggles == 2
ToggleSlots == 1..MaxToggles
IdleToggle == [pc |-> "idle", itemId |-> 0, newIsFav |-> FALSE, favorites |-> {}]
IdleMigration == [pc |-> "idle", items |-> <<>>, favorites |-> {}, i |-> 0, migrated |-> FALSE,
                  reason |-> Null]
\* Nothing to migrate, no toggle running.
NoLegacy == [completed |-> FALSE, items |-> <<>>, favorites |-> {}]
NoToggle == [itemId |-> 0, newIsFav |-> FALSE, midSync |-> FALSE]
NoToggles == [expected |-> [id \in Ids |-> NullInt], last |-> NoToggle]
SideAtRest ==
  /\ asyncStorage = NoLegacy
  /\ migration = IdleMigration
  /\ toggles = [k \in ToggleSlots |-> IdleToggle]
  /\ toggleLog = NoToggles

\* ------------------------------------------------------- history query: data
\* periodMs of PriceChart, in seconds.
DaySeconds == 24 * 60 * 60
Periods == {"7d", "14d", "30d"}
PeriodSeconds == [p \in Periods |-> CASE p = "7d" -> 7 * DaySeconds
                                      [] p = "14d" -> 14 * DaySeconds
                                      [] p = "30d" -> 30 * DaySeconds]

\* loadPriceHistory is not running; loading and priceHistory as useState
\* makes them.
IdleQuery == [pc |-> "idle", marketHashName |-> Null, period |-> Null, timeoutArmed |-> FALSE]
NotAnswered == [marketHashName |-> Null, period |-> Null, outcome |-> Null, history |-> <<>>]
QueryAtRest ==
  /\ query = IdleQuery
  /\ chart = [loading |-> TRUE, priceHistory |-> <<>>]
  /\ answered = NotAnswered

IdleTask == [pc |-> "idle", connected |-> TRUE, cold |-> FALSE, apiData |-> <<>>,
             i |-> 0, pre |-> <<>>, preSync |-> NullInt, result |-> Null]

NoFirstSync == [n |-> 0, payload |-> <<>>, ids |-> {}, count |-> 0]

AllIdle == \A t \in Callers : task[t].pc = "idle"
InFlight == {t \in Callers : task[t].pc # "idle"}

\* setError: the NetInfo effect depends on [error], so a changed error
\* re-subscribes the listener with the closures of the new render.
SetError(e) ==
  /\ error' = e
  /\ listenerConnected' = IF e # error THEN isConnected' ELSE listenerConnected
\* ------------------------------------------------------- catalog: actions
\* syncFromAPI up to its first await: setError(null), NetInfo.fetch() issued.
EnterSync(tk, isCold) ==
  [tk EXCEPT !.pc = "netinfo", !.cold = isCold, !.apiData = <<>>, !.i = 0,
             !.pre = items, !.preSync = lastSync, !.result = Null]

\* loadData up to its first await (getAllItems); c is the isConnected its
\* closure holds.
LoadDataCall(t, c) ==
  /\ task[t].pc = "idle"
  /\ isLoading' = TRUE
  /\ SetError(Null)
  /\ task' = [task EXCEPT ![t] = [IdleTask EXCEPT !.pc = "getAll", !.connected = c]]

\* useEffect(..., [dbInitialized]): loadData().
InitialLoadEffect ==
  /\ UNCHANGED <<priceVars, queryVars, sideVars>>
  /\ ~effectRan
  /\ effectRan' = TRUE
  /\ UNCHANGED isConnected
  /\ LoadDataCall("effect", isConnected)
  /\ UNCHANGED <<items, lastSync, now, netUp, remote, ctxItems, favorites, firstSync>>

\* retryLoadData = useCallback(..., []): the loadData of the first render,
\* whose isConnected is the initial state true.
RetryLoadData ==
  /\ UNCHANGED <<priceVars, queryVars, sideVars>>
  /\ effectRan
  /\ UNCHANGED isConnected
  /\ LoadDataCall("retry", TRUE)
  /\ UNCHANGED <<items, lastSync, now, netUp, remote, effectRan, ctxItems, favorites,
                 firstSync>>

\* The NetInfo listener: setIsConnected, and loadData() again after a
\* "Network" error.
NetInfoListener(connected) ==
  /\ UNCHANGED <<priceVars, queryVars, sideVars>>
  /\ netUp # connected
  /\ netUp' = connected
  /\ isConnected' = connected
  /\ IF connected /\ error # Null /\ IncludesNetwork(error)
     THEN LoadDataCall("reconnect", listenerConnected)
     ELSE UNCHANGED <<error, listenerConnected, isLoading, task>>
  /\ UNCHANGED <<items, lastSync, now, remote, effectRan, ctxItems, favorites, firstSync>>

\* loadData after getAllItems: favorites map, then the cold or the warm branch.
LoadDataRead(t) ==
  /\ UNCHANGED <<priceVars, queryVars, sideVars>>
  /\ t \in LoadCallers
  /\ task[t].pc = "getAll"
  /\ LET dbItems == getAllItems(items) IN
     /\ favorites' = FavMap(dbItems)
     /\ UNCHANGED isConnected
     /\ IF Cardinality(dbItems) = 0
        THEN IF ~task[t].connected
             THEN /\ SetError(ErrNoCache)
                  /\ isLoading' = FALSE
                  /\ task' = [task EXCEPT ![t] = IdleTask]
                  /\ UNCHANGED ctxItems
             ELSE /\ SetError(Null)
                  /\ task' = [task EXCEPT ![t] = EnterSync(task[t], TRUE)]
                  /\ UNCHANGED <<isLoading, ctxItems>>
        ELSE /\ ctxItems' = dbItems
             /\ isLoading' = FALSE
             /\ task' = [task EXCEPT ![t] =
                           IF task[t].connected THEN [task[t] EXCEPT !.pc = "getMeta"]
                           ELSE IdleTask]
             /\ UNCHANGED <<error, listenerConnected>>
  /\ UNCHANGED <<items, lastSync, now, netUp, remote, effectRan, firstSync>>

\* loadData after getMetadata("lastSync"): a stale catalog starts
\* syncFromAPI() without awaiting it; loadData returns.
LoadDataMeta(t) ==
  /\ UNCHANGED <<priceVars, queryVars, sideVars>>
  /\ t \in LoadCallers
  /\ task[t].pc = "getMeta"
  /\ UNCHANGED isConnected
  /\ IF IsStale(lastSync, now)
     THEN /\ task["background"].pc = "idle"
          /\ SetError(Null)
          /\ task' = [task EXCEPT ![t] = IdleTask,
                                  !["background"] = EnterSync(IdleTask, FALSE)]
     ELSE /\ task' = [task EXCEPT ![t] = IdleTask]
          /\ UNCHANGED <<error, listenerConnected>>
  /\ UNCHANGED <<items, lastSync, now, netUp, remote, effectRan, isLoading, ctxItems,
                 favorites, firstSync>>

\* ListScreen.handleRefresh: await syncFromAPI().
ManualSync ==
  /\ UNCHANGED <<priceVars, queryVars, sideVars>>
  /\ effectRan
  /\ task["manual"].pc = "idle"
  /\ UNCHANGED isConnected
  /\ SetError(Null)
  /\ task' = [task EXCEPT !["manual"] = EnterSync(IdleTask, FALSE)]
  /\ UNCHANGED <<items, lastSync, now, netUp, remote, effectRan, isLoading, ctxItems,
                 favorites, firstSync>>

\* catch of syncFromAPI: setError(errorMessage), setIsLoading(false), throw err.
SyncCatch(t, msg) ==
  /\ UNCHANGED isConnected
  /\ SetError(SyncErrorMessage(msg))
  /\ isLoading' = FALSE
  /\ task' = [task EXCEPT ![t].pc = "threw", ![t].result = msg]

\* syncFromAPI after NetInfo.fetch().
SyncNetInfo(t) ==
  /\ UNCHANGED <<priceVars, queryVars, sideVars>>
  /\ task[t].pc = "netinfo"
  /\ IF ~netUp
     THEN SyncCatch(t, ErrNoInternet)
     ELSE /\ task' = [task EXCEPT ![t].pc = "fetch"]
          /\ UNCHANGED <<isConnected, error, listenerConnected, isLoading>>
  /\ UNCHANGED <<items, lastSync, now, netUp, remote, effectRan, ctxItems, favorites,
                 firstSync>>

\* syncFromAPI after fetchSkinsFromAPI() threw.
SyncFetchFails(t) ==
  /\ UNCHANGED <<priceVars, queryVars, sideVars>>
  /\ task[t].pc = "fetch"
  /\ \E e \in FetchErrors : SyncCatch(t, e)
  /\ UNCHANGED <<items, lastSync, now, netUp, remote, effectRan, ctxItems, favorites,
                 firstSync>>

\* syncFromAPI without its check of an empty response: insertItems has
\* nothing to insert and setMetadata follows.
SyncFetchedUnchecked(t) ==
  /\ UNCHANGED <<priceVars, queryVars, sideVars>>
  /\ task[t].pc = "fetch"
  /\ task' = [task EXCEPT ![t].pc = IF Len(remote) = 0 THEN "setMeta" ELSE "insert",
                          ![t].apiData = remote, ![t].i = 1]
  /\ UNCHANGED <<isConnected, error, listenerConnected, isLoading>>
  /\ UNCHANGED <<items, lastSync, now, netUp, remote, effectRan, ctxItems, favorites,
                 firstSync>>

\* syncFromAPI after fetchSkinsFromAPI() returned: the empty check, the
\* processedItems, the first statement of insertItems issued.
SyncFetched(t) ==
  /\ UNCHANGED <<priceVars, queryVars, sideVars>>
  /\ task[t].pc = "fetch"
  /\ IF Len(remote) = 0
     THEN SyncCatch(t, ErrNoData)
     ELSE /\ task' = [task EXCEPT ![t].pc = "insert", ![t].apiData = remote, ![t].i = 1]
          /\ UNCHANGED <<isConnected, error, listenerConnected, isLoading>>
  /\ UNCHANGED <<items, lastSync, now, netUp, remote, effectRan, ctxItems, favorites,
                 firstSync>>

\* insertItems: one iteration of the loop.
SyncInsert(t) ==
  /\ UNCHANGED <<priceVars, queryVars, sideVars>>
  /\ task[t].pc = "insert"
  /\ items' = UpsertItem(items, ProcessItems(task[t].apiData)[task[t].i])
  /\ task' = [task EXCEPT ![t] =
                IF task[t].i = Len(task[t].apiData)
                THEN [task[t] EXCEPT !.pc = "setMeta"]
                ELSE [task[t] EXCEPT !.i = task[t].i + 1]]
  /\ UNCHANGED <<lastSync, now, netUp, remote, isConnected, listenerConnected, effectRan,
                 error, isLoading, ctxItems, favorites, firstSync>>

\* setMetadata("lastSync", Date.now()).
SyncSetMeta(t) ==
  /\ UNCHANGED <<priceVars, queryVars, sideVars>>
  /\ task[t].pc = "setMeta"
  /\ lastSync' = now
  /\ task' = [task EXCEPT ![t].pc = "reload"]
  /\ UNCHANGED <<items, now, netUp, remote, isConnected, listenerConnected, effectRan,
                 error, isLoading, ctxItems, favorites, firstSync>>

\* getAllItems, setItems, setIsLoading(false), return processedItems.length.
SyncReload(t) ==
  /\ UNCHANGED <<priceVars, queryVars, sideVars>>
  /\ task[t].pc = "reload"
  /\ ctxItems' = getAllItems(items)
  /\ isLoading' = FALSE
  /\ task' = [task EXCEPT ![t].pc = "returned"]
  /\ firstSync' = IF firstSync.n = 0
                  THEN [n |-> 1, payload |-> task[t].apiData, ids |-> RowIds(items),
                        count |-> Len(items)]
                  ELSE [firstSync EXCEPT !.n = 2]
  /\ UNCHANGED <<items, lastSync, now, netUp, remote, isConnected, listenerConnected,
                 effectRan, error, favorites>>

\* The caller resumes after syncFromAPI resolved: loadData and handleRefresh
\* return.
SyncReturned(t) ==
  /\ UNCHANGED <<priceVars, queryVars, sideVars>>
  /\ task[t].pc = "returned"
  /\ task' = [task EXCEPT ![t] = IdleTask]
  /\ UNCHANGED <<items, lastSync, now, netUp, remote, isConnected, listenerConnected,
                 effectRan, error, isLoading, ctxItems, favorites, firstSync>>

\* The caller resumes after syncFromAPI rejected: loadData's catch sets the
\* error again; the background .catch and handleRefresh only log.
SyncThrew(t) ==
  /\ UNCHANGED <<priceVars, queryVars, sideVars>>
  /\ task[t].pc = "threw"
  /\ UNCHANGED isConnected
  /\ IF t \in LoadCallers
     THEN /\ SetError(task[t].result)
          /\ isLoading' = FALSE
     ELSE UNCHANGED <<error, listenerConnected, isLoading>>
  /\ task' = [task EXCEPT ![t] = IdleTask]
  /\ UNCHANGED <<items, lastSync, now, netUp, remote, effectRan, ctxItems, favorites,
                 firstSync>>

\* ---------------------------------------------- calls made one at a time
\* Any store and any remote payload; a call starts when no other is running.
SyncInit ==
  /\ items \in InitTables
  /\ lastSync \in (IF items = <<>> THEN {NullInt} ELSE {NullInt, 1})
  /\ now \in {1, StaleSeconds + 1, StaleSeconds + 2}
  /\ netUp \in BOOLEAN
  /\ remote \in Payloads
  /\ isConnected = TRUE
  /\ listenerConnected = TRUE
  /\ effectRan = FALSE
  /\ error = Null
  /\ isLoading = TRUE
  /\ ctxItems = {}
  /\ favorites = {}
  /\ task = [t \in Callers |-> IdleTask]
  /\ firstSync = NoFirstSync
  /\ PricesAtRest
  /\ QueryAtRest
  /\ SideAtRest

\* A call from the user interface or the platform, made while none is running.
InitialLoadEffectAlone == AllIdle /\ InitialLoadEffect
RetryLoadDataAlone == AllIdle /\ RetryLoadData
ManualSyncAlone == AllIdle /\ ManualSync
NetInfoListenerAlone == AllIdle /\ \E c \in BOOLEAN : NetInfoListener(c)

SyncNext ==
  \/ InitialLoadEffectAlone
  \/ RetryLoadDataAlone
  \/ ManualSyncAlone
  \/ NetInfoListenerAlone
  \/ \E t \in Callers :
        \/ LoadDataRead(t)
        \/ LoadDataMeta(t)
        \/ SyncNetInfo(t)
        \/ SyncFetchFails(t)
        \/ SyncFetched(t)
        \/ SyncInsert(t)
        \/ SyncSetMeta(t)
        \/ SyncReload(t)
        \/ SyncReturned(t)
        \/ SyncThrew(t)

SpecSync == SyncInit /\ [][SyncNext]_vars
\* ------------------------------------------------ catalog: properties
PayloadIds(apiData) == {apiData[k].id : k \in 1..Len(apiData)}
RowsOf(tbl, id) == {k \in 1..Len(tbl) : tbl[k].id = id}
RowOf(tbl, id) == tbl[CHOOSE k \in RowsOf(tbl, id) : TRUE]
DistinctIds(apiData) == Cardinality(PayloadIds(apiData)) = Len(apiData)

\* C1  Favorite preservation: when syncFromAPI has returned successfully,
\* every id that was stored with isFavorite = 1 when the call began and
\* that the payload contains is stored once, still with isFavorite = 1, and
\* with the description of the payload's record.
C1_FavoritePreserved ==
  \A t \in Callers :
    task[t].pc = "returned" =>
      \A k \in 1..Len(task[t].pre) :
        LET old == task[t].pre[k] IN
        (old.isFavorite = 1 /\ old.id \in PayloadIds(task[t].apiData)) =>
          /\ Cardinality(RowsOf(items, old.id)) = 1
          /\ RowOf(items, old.id).isFavorite = 1
          /\ \A j \in 1..Len(task[t].apiData) :
               task[t].apiData[j].id = old.id =>
                 RowOf(items, old.id).description = OrEmpty(task[t].apiData[j].description)

\* A favorite row was rewritten with a new description by a returned sync.
C1_Witness ==
  \E t \in Callers :
    /\ task[t].pc = "returned"
    /\ \E k \in 1..Len(task[t].pre) :
         /\ task[t].pre[k].isFavorite = 1
         /\ task[t].pre[k].id \in PayloadIds(task[t].apiData)
         /\ RowOf(items, task[t].pre[k].id).description # task[t].pre[k].description

\* C2  No duplication: when a second successful syncFromAPI has returned and
\* its payload is the payload of the first, the items table holds the ids and
\* the row count the first call left.
C2_NoDuplication ==
  \A t \in Callers :
    (task[t].pc = "returned" /\ firstSync.n = 2 /\ task[t].apiData = firstSync.payload) =>
      /\ RowIds(items) = firstSync.ids
      /\ Len(items) = firstSync.count

\* A second sync with the same payload returned over a table of two rows.
C2_Witness ==
  \E t \in Callers :
    /\ task[t].pc = "returned"
    /\ firstSync.n = 2
    /\ task[t].apiData = firstSync.payload
    /\ Len(items) >= 2

\* C3  Cold start: when loadData found the items table empty and its
\* syncFromAPI has returned with N records of distinct ids, the table holds
\* exactly N rows, each with isFavorite = 0.
C3_ColdStart ==
  \A t \in LoadCallers :
    (task[t].pc = "returned" /\ task[t].cold /\ DistinctIds(task[t].apiData)) =>
      /\ Len(items) = Len(task[t].apiData)
      /\ \A k \in 1..Len(items) : items[k].isFavorite = 0

\* A cold loadData returned after storing two distinct records.
C3_Witness ==
  \E t \in LoadCallers :
    /\ task[t].pc = "returned"
    /\ task[t].cold
    /\ DistinctIds(task[t].apiData)
    /\ Len(task[t].apiData) >= 2
\* ------------------------------------------------- calls that overlap
\* A fresh install or a stored catalog; calls start whenever their call site
\* is free, whatever else is running.
CatalogInit ==
  /\ items \in {tbl \in InitTables : Len(tbl) \in {0, MaxId}}
  /\ lastSync = NullInt
  /\ now = 1
  /\ netUp \in BOOLEAN
  /\ remote \in {p \in Payloads : Len(p) = MaxId /\ DistinctIds(p)}
  /\ isConnected = TRUE
  /\ listenerConnected = TRUE
  /\ effectRan = FALSE
  /\ error = Null
  /\ isLoading = TRUE
  /\ ctxItems = {}
  /\ favorites = {}
  /\ task = [t \in Callers |-> IdleTask]
  /\ firstSync = NoFirstSync
  /\ PricesAtRest
  /\ QueryAtRest
  /\ SideAtRest

\* At most MaxInFlight calls run at once.
MayCall == Cardinality(InFlight) < MaxInFlight
InitialLoadEffectOverlapping == MayCall /\ InitialLoadEffect
RetryLoadDataOverlapping == MayCall /\ RetryLoadData
ManualSyncOverlapping == MayCall /\ ManualSync
NetInfoListenerOverlapping ==
  \E c \in BOOLEAN :
    /\ (c /\ error # Null /\ IncludesNetwork(error)) => MayCall
    /\ NetInfoListener(c)

CatalogNext ==
  \/ InitialLoadEffectOverlapping
  \/ RetryLoadDataOverlapping
  \/ ManualSyncOverlapping
  \/ NetInfoListenerOverlapping
  \/ \E t \in Callers :
        \/ LoadDataRead(t)
        \/ LoadDataMeta(t)
        \/ SyncNetInfo(t)
        \/ SyncFetchFails(t)
        \/ SyncFetched(t)
        \/ SyncInsert(t)
        \/ SyncSetMeta(t)
        \/ SyncReload(t)
        \/ SyncReturned(t)
        \/ SyncThrew(t)

SpecCatalog == CatalogInit /\ [][CatalogNext]_vars

\* The calls of syncFromAPI that have fetched and are writing the store.
Writing == {t \in Callers : task[t].pc \in {"insert", "setMeta", "reload"}}

\* C5  Overlapping syncs are coalesced: a syncFromAPI called while another is
\* in flight fetches nothing and writes nothing, so at most one call is ever
\* between its remote fetch and its return.
C5_Coalesced == Cardinality(Writing) <= 1
\* ------------------------------------------------------- prices: SQL
PriceRows(tbl, name) == {k \in 1..Len(tbl) : tbl[k].market_hash_name = name}

\* A plain INSERT INTO price_data in place of INSERT OR REPLACE.
InsertPriceKeepingOld(tbl, entry) ==
  Append(tbl, [market_hash_name |-> entry.market_hash_name,
               price |-> PriceOf(entry.info),
               avg |-> OrElse(Field(entry.info, "avg"), 0)])

\* INSERT OR REPLACE INTO price_data, one iteration of savePriceData.
UpsertPrice(tbl, entry) ==
  LET keep(r) == r.market_hash_name # entry.market_hash_name IN
  Append(SelectSeq(tbl, keep),
         [market_hash_name |-> entry.market_hash_name,
          price |-> PriceOf(entry.info),
          avg |-> OrElse(Field(entry.info, "avg"), 0)])

\* getPriceData: SELECT * FROM price_data into an object keyed by name.
getPriceData(tbl) ==
  [name \in {tbl[k].market_hash_name : k \in 1..Len(tbl)} |->
     LET r == tbl[CHOOSE k \in PriceRows(tbl, name) : \A j \in PriceRows(tbl, name) : j <= k]
     IN  [price |-> r.price, avg |-> r.avg]]

\* The priceMap object of a fetched payload.
PriceMap(prices) ==
  [name \in {prices[k].market_hash_name : k \in 1..Len(prices)} |->
     (CHOOSE e \in {prices[k] : k \in 1..Len(prices)} : e.market_hash_name = name).info]

\* savePriceHistory's loop without its test of price > 0.
NextEntry(prices, j) == IF j <= Len(prices) THEN j ELSE 0

\* savePriceHistory's loop: the next entry at or after index j whose price
\* is > 0 (0: none is left).
NextPositive(prices, j) ==
  LET S == {k \in j..Len(prices) : PriceOf(prices[k].info) > 0} IN
  IF S = {} THEN 0 ELSE CHOOSE k \in S : \A m \in S : k <= m

\* DELETE FROM price_history WHERE timestamp <= cutoffTime.
DeleteOlderOrAt(tbl, cutoffTime) ==
  LET keep(r) == ~(r.timestamp <= cutoffTime) IN SelectSeq(tbl, keep)

\* DELETE FROM price_history WHERE timestamp < cutoffTime.
RetentionSeconds == 30 * 24 * 60 * 60
DeleteOlderThan(tbl, cutoffTime) ==
  LET keep(r) == ~(r.timestamp < cutoffTime) IN SelectSeq(tbl, keep)

\* savePriceData as a whole: the upserts of all entries from the i-th on.
RECURSIVE savePriceData(_, _, _)
savePriceData(tbl, prices, i) ==
  IF i > Len(prices) THEN tbl
  ELSE savePriceData(UpsertPrice(tbl, prices[i]), prices, i + 1)

\* savePriceHistory as a whole: one row, stamped timestamp, for each entry
\* from the i-th on whose price is > 0.
RECURSIVE savePriceHistory(_, _, _, _)
savePriceHistory(tbl, prices, timestamp, i) ==
  IF i > Len(prices) THEN tbl
  ELSE savePriceHistory(
         IF PriceOf(prices[i].info) > 0
         THEN Append(tbl, [market_hash_name |-> prices[i].market_hash_name,
                           price |-> PriceOf(prices[i].info),
                           timestamp |-> timestamp])
         ELSE tbl,
         prices, timestamp, i + 1)

\* cleanOldPriceHistory(daysToKeep) at time t.
cleanOldPriceHistory(tbl, daysToKeep, t) == DeleteOlderThan(tbl, t - daysToKeep * DaySeconds)

\* ------------------------------------------------------- prices: actions
Polling == {t \in PollSlots : poll[t].pc # "idle"}
FreeSlots(n) == {t \in PollSlots \ Polling : Cardinality({r \in PollSlots \ Polling : r < t}) < n}

\* n calls of loadPrices, each up to its first await: the offline branch
\* reads the cache, the online branch fetches.
StartPolls(n) ==
  /\ Cardinality(PollSlots \ Polling) >= n
  /\ poll' = [t \in PollSlots |->
                IF t \in FreeSlots(n)
                THEN [IdlePoll EXCEPT !.pc = IF isConnected' THEN "fetch" ELSE "cacheRead"]
                ELSE poll[t]]

\* clearInterval left out.
clearIntervalNoop(ts, id) == ts

\* clearInterval(id) on the set of live intervals.
clearInterval(ts, id) == ts \ {id}

\* The id setInterval returns: one that no live interval has.
NewTimer(ts) == CHOOSE id \in 1..MaxTimers : id \notin ts /\ \A j \in 1..MaxTimers : j < id => j \in ts

\* The provider was mounted and is unmounted.
Unmounted == ~pollMounted /\ priceUpdateInterval # NullInt

\* setDbInitialized(true): the [dbInitialized] effect calls loadPrices(); the
\* polling effect calls loadPrices() again, arms the interval and subscribes
\* to AppState.
MountEffects ==
  /\ ~pollMounted
  /\ priceUpdateInterval = NullInt
  /\ pollMounted' = TRUE
  /\ Cardinality(timers) < MaxTimers
  /\ timers' = timers \cup {NewTimer(timers)}
  /\ priceUpdateInterval' = NewTimer(timers)
  /\ UNCHANGED <<now, netUp, isConnected>>
  /\ StartPolls(2)
  /\ UNCHANGED <<price_data, price_history, lastPriceUpdateMeta, priceData, lastPriceUpdate,
                 appState, supabaseConfigured, snapshots, fetched, latestFetched>>
  /\ UNCHANGED <<catalogRest, queryVars, sideVars>>

\* An unmount whose cleanup leaves the interval set.
UnmountLeavingTimer ==
  /\ pollMounted
  /\ pollMounted' = FALSE
  /\ UNCHANGED <<now, netUp, isConnected>>
  /\ UNCHANGED <<price_data, price_history, lastPriceUpdateMeta, priceData, lastPriceUpdate,
                 poll, timers, priceUpdateInterval, appState, supabaseConfigured, snapshots, fetched,
                 latestFetched>>
  /\ UNCHANGED <<catalogRest, queryVars, sideVars>>

\* The provider unmounts: the polling effect's cleanup clears the interval
\* in priceUpdateInterval.current and removes the AppState subscription.
\* Calls of loadPrices that are running go on.
Unmount ==
  /\ pollMounted
  /\ pollMounted' = FALSE
  /\ timers' = clearInterval(timers, priceUpdateInterval)
  /\ UNCHANGED <<now, netUp, isConnected>>
  /\ UNCHANGED <<price_data, price_history, lastPriceUpdateMeta, priceData, lastPriceUpdate,
                 poll, priceUpdateInterval, appState, supabaseConfigured, snapshots, fetched,
                 latestFetched>>
  /\ UNCHANGED <<catalogRest, queryVars, sideVars>>

\* The callback of a live interval that starts a call of loadPrices at its
\* fetch, whatever isConnected is.
TimerFireUngated(id) ==
  /\ id \in timers
  /\ UNCHANGED <<now, netUp, isConnected>>
  /\ Cardinality(PollSlots \ Polling) >= 1
  /\ poll' = [t \in PollSlots |->
                IF t \in FreeSlots(1) THEN [IdlePoll EXCEPT !.pc = "fetch"] ELSE poll[t]]
  /\ UNCHANGED <<price_data, price_history, lastPriceUpdateMeta, priceData, lastPriceUpdate,
                 pollMounted, timers, priceUpdateInterval, appState, supabaseConfigured, snapshots, fetched,
                 latestFetched>>
  /\ UNCHANGED <<catalogRest, queryVars, sideVars>>

\* The callback of a live interval: loadPrices() if isConnected, a log line
\* if not.
TimerFire(id) ==
  /\ id \in timers
  /\ UNCHANGED <<now, netUp, isConnected>>
  /\ IF isConnected THEN StartPolls(1) ELSE UNCHANGED poll
  /\ UNCHANGED <<price_data, price_history, lastPriceUpdateMeta, priceData, lastPriceUpdate,
                 pollMounted, timers, priceUpdateInterval, appState, supabaseConfigured, snapshots, fetched,
                 latestFetched>>
  /\ UNCHANGED <<catalogRest, queryVars, sideVars>>

\* The AppState listener: loadPrices() on inactive/background -> active if
\* isConnected; appState.current is updated.
AppStateChange(nextAppState) ==
  /\ pollMounted
  /\ nextAppState # appState
  /\ appState' = nextAppState
  /\ UNCHANGED <<now, netUp, isConnected>>
  /\ IF appState \in {"inactive", "background"} /\ nextAppState = "active" /\ isConnected
     THEN StartPolls(1)
     ELSE UNCHANGED poll
  /\ UNCHANGED <<price_data, price_history, lastPriceUpdateMeta, priceData, lastPriceUpdate,
                 pollMounted, timers, priceUpdateInterval, supabaseConfigured, snapshots, fetched,
                 latestFetched>>
  /\ UNCHANGED <<catalogRest, queryVars, sideVars>>

\* The NetInfo listener's setIsConnected; the polling effect depends on
\* [dbInitialized, isConnected]: its cleanup clears the interval, then it runs
\* again (loadPrices(), a new interval).
ConnectivityChange(connected) ==
  /\ netUp # connected \/ (~Unmounted /\ isConnected # connected)
  /\ netUp' = connected
  /\ isConnected' = IF Unmounted THEN isConnected ELSE connected
  /\ IF pollMounted /\ isConnected # connected
     THEN LET cleared == clearInterval(timers, priceUpdateInterval) IN
          /\ Cardinality(cleared) < MaxTimers
          /\ timers' = cleared \cup {NewTimer(cleared)}
          /\ priceUpdateInterval' = NewTimer(cleared)
          /\ StartPolls(1)
     ELSE UNCHANGED <<poll, timers, priceUpdateInterval>>
  /\ UNCHANGED now
  /\ UNCHANGED <<price_data, price_history, lastPriceUpdateMeta, priceData, lastPriceUpdate,
                 pollMounted, appState, supabaseConfigured, snapshots, fetched,
                 latestFetched>>
  /\ UNCHANGED <<catalogRest, queryVars, sideVars>>

\* refreshPrices of the context value.
ManualRefresh ==
  /\ pollMounted
  /\ UNCHANGED <<now, netUp, isConnected>>
  /\ StartPolls(1)
  /\ UNCHANGED <<price_data, price_history, lastPriceUpdateMeta, priceData, lastPriceUpdate,
                 pollMounted, timers, priceUpdateInterval, appState, supabaseConfigured, snapshots, fetched,
                 latestFetched>>
  /\ UNCHANGED <<catalogRest, queryVars, sideVars>>

\* Time passes.
Tick ==
  /\ now < MaxNow
  /\ now' = now + 1
  /\ UNCHANGED <<netUp, isConnected>>
  /\ UNCHANGED priceVars
  /\ UNCHANGED <<catalogRest, queryVars, sideVars>>

\* Offline branch after getPriceData(): cached prices are served, if any.
PollCacheRead(t) ==
  /\ poll[t].pc = "cacheRead"
  /\ LET cachedPrices == getPriceData(price_data) IN
     IF DOMAIN cachedPrices # {}
     THEN /\ priceData' = cachedPrices
          /\ poll' = [poll EXCEPT ![t].pc = "cacheMeta"]
     ELSE /\ poll' = [poll EXCEPT ![t] = IdlePoll]
          /\ UNCHANGED priceData
  /\ UNCHANGED <<price_data, price_history, lastPriceUpdateMeta, lastPriceUpdate,
                 pollMounted, timers, priceUpdateInterval, appState, supabaseConfigured, snapshots, fetched,
                 latestFetched>>
  /\ UNCHANGED <<catalogVars, queryVars, sideVars>>

\* Offline branch after getMetadata("lastPriceUpdate"): lastUpdate || null.
PollCacheMeta(t) ==
  /\ poll[t].pc = "cacheMeta"
  /\ lastPriceUpdate' = IF lastPriceUpdateMeta = 0 THEN NullInt ELSE lastPriceUpdateMeta
  /\ poll' = [poll EXCEPT ![t] = IdlePoll]
  /\ UNCHANGED <<price_data, price_history, lastPriceUpdateMeta, priceData,
                 pollMounted, timers, priceUpdateInterval, appState, supabaseConfigured, snapshots, fetched,
                 latestFetched>>
  /\ UNCHANGED <<catalogVars, queryVars, sideVars>>

\* A failed fetch that also empties the cache.
PollFetchNullClearing(t) ==
  /\ poll[t].pc = "fetch"
  /\ poll' = [poll EXCEPT ![t] = IdlePoll]
  /\ price_data' = <<>>
  /\ UNCHANGED <<price_history, lastPriceUpdateMeta, priceData, lastPriceUpdate,
                 pollMounted, timers, priceUpdateInterval, appState, supabaseConfigured, snapshots, fetched,
                 latestFetched>>
  /\ UNCHANGED <<catalogVars, queryVars, sideVars>>

\* fetchPriceData() caught an error and returned null: loadPrices returns.
PollFetchNull(t) ==
  /\ poll[t].pc = "fetch"
  /\ poll' = [poll EXCEPT ![t] = IdlePoll]
  /\ UNCHANGED <<price_data, price_history, lastPriceUpdateMeta, priceData, lastPriceUpdate,
                 pollMounted, timers, priceUpdateInterval, appState, supabaseConfigured, snapshots, fetched,
                 latestFetched>>
  /\ UNCHANGED <<catalogVars, queryVars, sideVars>>

\* savePriceHistory up to its first await: Date.now() is taken, entries
\* whose price is not > 0 are passed over.
EnterSaveHistory(p) ==
  IF NextPositive(p.prices, 1) = 0
  THEN [p EXCEPT !.pc = "setMeta", !.histTs = now]
  ELSE [p EXCEPT !.pc = "saveHistory", !.histTs = now, !.i = NextPositive(p.prices, 1)]

\* fetchPriceData() returned a price map: setPriceData, setLastPriceUpdate,
\* and savePriceData up to its first await.
PollFetched(t, prices) ==
  /\ poll[t].pc = "fetch"
  /\ netUp
  /\ fetched < MaxFetches
  /\ fetched' = fetched + 1
  /\ latestFetched' =
       [k \in Keys |-> IF k \in DOMAIN PriceMap(prices)
                       THEN PriceOf(PriceMap(prices)[k]) ELSE latestFetched[k]]
  /\ priceData' = PriceMap(prices)
  /\ lastPriceUpdate' = now
  /\ poll' = [poll EXCEPT ![t] =
                IF Len(prices) = 0
                THEN EnterSaveHistory([poll[t] EXCEPT !.prices = prices, !.timestamp = now])
                ELSE [poll[t] EXCEPT !.pc = "saveData", !.prices = prices, !.i = 1,
                                     !.timestamp = now]]
  /\ UNCHANGED <<price_data, price_history, lastPriceUpdateMeta, pollMounted, timers, priceUpdateInterval,
                 appState, supabaseConfigured, snapshots>>
  /\ UNCHANGED <<catalogVars, queryVars, sideVars>>

\* savePriceData: one iteration; after the last one savePriceHistory begins.
PollSaveData(t) ==
  /\ poll[t].pc = "saveData"
  /\ price_data' = UpsertPrice(price_data, poll[t].prices[poll[t].i])
  /\ poll' = [poll EXCEPT ![t] =
                IF poll[t].i = Len(poll[t].prices)
                THEN EnterSaveHistory(poll[t])
                ELSE [poll[t] EXCEPT !.i = poll[t].i + 1]]
  /\ UNCHANGED <<price_history, lastPriceUpdateMeta, priceData, lastPriceUpdate,
                 pollMounted, timers, priceUpdateInterval, appState, supabaseConfigured, snapshots, fetched,
                 latestFetched>>
  /\ UNCHANGED <<catalogVars, queryVars, sideVars>>

\* savePriceHistory: one INSERT; then the next entry with a price > 0.
PollSaveHistory(t) ==
  /\ poll[t].pc = "saveHistory"
  /\ LET e == poll[t].prices[poll[t].i]
         j == NextPositive(poll[t].prices, poll[t].i + 1)
     IN  /\ price_history' = Append(price_history,
                                    [market_hash_name |-> e.market_hash_name,
                                     price |-> PriceOf(e.info),
                                     timestamp |-> poll[t].histTs])
         /\ poll' = [poll EXCEPT ![t] =
                       IF j = 0 THEN [poll[t] EXCEPT !.pc = "setMeta"]
                       ELSE [poll[t] EXCEPT !.i = j]]
  /\ UNCHANGED <<price_data, lastPriceUpdateMeta, priceData, lastPriceUpdate,
                 pollMounted, timers, priceUpdateInterval, appState, supabaseConfigured, snapshots, fetched,
                 latestFetched>>
  /\ UNCHANGED <<catalogVars, queryVars, sideVars>>

\* setMetadata("lastPriceUpdate", timestamp).
PollSetMeta(t) ==
  /\ poll[t].pc = "setMeta"
  /\ lastPriceUpdateMeta' = poll[t].timestamp
  /\ poll' = [poll EXCEPT ![t].pc = "clean"]
  /\ UNCHANGED <<price_data, price_history, priceData, lastPriceUpdate,
                 pollMounted, timers, priceUpdateInterval, appState, supabaseConfigured, snapshots, fetched,
                 latestFetched>>
  /\ UNCHANGED <<catalogVars, queryVars, sideVars>>

\* cleanOldPriceHistory(30); then, with a configured replica,
\* await savePriceSnapshotToSupabase(prices).
PollClean(t) ==
  /\ poll[t].pc = "clean"
  /\ price_history' = DeleteOlderThan(price_history, now - RetentionSeconds)
  /\ poll' = [poll EXCEPT ![t] =
                IF supabaseConfigured
                THEN [poll[t] EXCEPT !.pc = "cloud", !.timestamp = now]
                ELSE IdlePoll]
  /\ UNCHANGED <<price_data, lastPriceUpdateMeta, priceData, lastPriceUpdate,
                 pollMounted, timers, priceUpdateInterval, appState, supabaseConfigured, snapshots, fetched,
                 latestFetched>>
  /\ UNCHANGED <<catalogVars, queryVars, sideVars>>

\* The cloud insert answered with the saved row: loadPrices returns.
PollCloudSaved(t) ==
  /\ poll[t].pc = "cloud"
  /\ snapshots' = Append(snapshots, [timestamp |-> poll[t].timestamp,
                                     prices |-> PriceMap(poll[t].prices)])
  /\ poll' = [poll EXCEPT ![t] = IdlePoll]
  /\ UNCHANGED <<price_data, price_history, lastPriceUpdateMeta, priceData, lastPriceUpdate,
                 pollMounted, timers, priceUpdateInterval, appState, supabaseConfigured, fetched,
                 latestFetched>>
  /\ UNCHANGED <<catalogVars, queryVars, sideVars>>

\* A cloud error that takes the cycle's metadata write with it.
PollCloudErrorLosingWrites(t) ==
  /\ poll[t].pc = "cloud"
  /\ poll' = [poll EXCEPT ![t] = IdlePoll]
  /\ lastPriceUpdateMeta' = NullInt
  /\ UNCHANGED <<price_data, price_history, priceData, lastPriceUpdate,
                 pollMounted, timers, priceUpdateInterval, appState, supabaseConfigured, snapshots, fetched,
                 latestFetched>>
  /\ UNCHANGED <<catalogVars, queryVars, sideVars>>

\* The cloud insert answered with an error: it is rethrown, caught and
\* logged by loadPrices, which returns.
PollCloudError(t) ==
  /\ poll[t].pc = "cloud"
  /\ poll' = [poll EXCEPT ![t] = IdlePoll]
  /\ UNCHANGED <<price_data, price_history, lastPriceUpdateMeta, priceData, lastPriceUpdate,
                 pollMounted, timers, priceUpdateInterval, appState, supabaseConfigured, snapshots, fetched,
                 latestFetched>>
  /\ UNCHANGED <<catalogVars, queryVars, sideVars>>

\* A runAsync / getAllAsync of the local store rejected inside loadPrices'
\* try block: what was written before it stays written, and the outer catch
\* goes on to read the cache.
PollStoreThrew(t) ==
  /\ poll[t].pc \in {"cacheRead", "cacheMeta", "saveData", "saveHistory", "setMeta", "clean"}
  /\ poll' = [poll EXCEPT ![t].pc = "catchRead"]
  /\ UNCHANGED <<price_data, price_history, lastPriceUpdateMeta, priceData, lastPriceUpdate,
                 pollMounted, timers, priceUpdateInterval, appState, supabaseConfigured, snapshots, fetched,
                 latestFetched>>
  /\ UNCHANGED <<catalogVars, queryVars, sideVars>>

\* The catch of loadPrices after getPriceData(): cached prices are served, if
\* any; loadPrices returns.
PollCatchRead(t) ==
  /\ poll[t].pc = "catchRead"
  /\ LET cachedPrices == getPriceData(price_data) IN
     priceData' = IF DOMAIN cachedPrices # {} THEN cachedPrices ELSE priceData
  /\ poll' = [poll EXCEPT ![t] = IdlePoll]
  /\ UNCHANGED <<price_data, price_history, lastPriceUpdateMeta, lastPriceUpdate,
                 pollMounted, timers, priceUpdateInterval, appState, supabaseConfigured, snapshots, fetched,
                 latestFetched>>
  /\ UNCHANGED <<catalogVars, queryVars, sideVars>>

\* getPriceData() rejected inside the catch: it is logged; loadPrices returns.
PollCatchReadThrew(t) ==
  /\ poll[t].pc = "catchRead"
  /\ poll' = [poll EXCEPT ![t] = IdlePoll]
  /\ UNCHANGED <<price_data, price_history, lastPriceUpdateMeta, priceData, lastPriceUpdate,
                 pollMounted, timers, priceUpdateInterval, appState, supabaseConfigured, snapshots, fetched,
                 latestFetched>>
  /\ UNCHANGED <<catalogVars, queryVars, sideVars>>

\* The database has just been opened; the catalog is left alone.
PricesInit ==
  /\ items = <<>>
  /\ lastSync = NullInt
  /\ now = 1
  /\ netUp \in BOOLEAN
  /\ remote = <<>>
  /\ isConnected = TRUE
  /\ listenerConnected = TRUE
  /\ effectRan = FALSE
  /\ error = Null
  /\ isLoading = TRUE
  /\ ctxItems = {}
  /\ favorites = {}
  /\ task = [t \in Callers |-> IdleTask]
  /\ firstSync = NoFirstSync
  /\ price_data = <<>>
  /\ price_history = <<>>
  /\ lastPriceUpdateMeta = NullInt
  /\ priceData = <<>>
  /\ lastPriceUpdate = NullInt
  /\ poll = [t \in PollSlots |-> IdlePoll]
  /\ pollMounted = FALSE
  /\ timers = {}
  /\ priceUpdateInterval = NullInt
  /\ appState = "active"
  /\ supabaseConfigured \in BOOLEAN
  /\ snapshots = <<>>
  /\ fetched = 0
  /\ latestFetched = [k \in Keys |-> NullInt]
  /\ observed = NotObserved
  /\ QueryAtRest
  /\ SideAtRest

PricesNext ==
  \/ MountEffects /\ UNCHANGED observed
  \/ \E id \in 1..MaxTimers : TimerFire(id) /\ UNCHANGED observed
  \/ \E a \in {"active", "background"} : AppStateChange(a) /\ UNCHANGED observed
  \/ \E c \in BOOLEAN : ConnectivityChange(c) /\ UNCHANGED observed
  \/ ManualRefresh /\ UNCHANGED observed
  \/ Tick
  \/ \E t \in PollSlots :
        \/ PollCacheRead(t) /\ UNCHANGED observed
        \/ PollCacheMeta(t) /\ UNCHANGED observed
        \/ PollFetchNull(t) /\ UNCHANGED observed
        \/ \E prices \in PricePayloads : PollFetched(t, prices) /\ UNCHANGED observed
        \/ PollSaveData(t) /\ UNCHANGED observed
        \/ PollSaveHistory(t) /\ UNCHANGED observed
        \/ PollSetMeta(t) /\ UNCHANGED observed
        \/ PollClean(t) /\ UNCHANGED observed
        \/ PollCloudSaved(t) /\ UNCHANGED observed
        \/ PollCloudError(t) /\ UNCHANGED observed

SpecPrices == PricesInit /\ [][PricesNext]_vars
\* ------------------------------------------------------- prices: properties
\* The calls of loadPrices between their fetch and their last store write.
InCycle == {t \in PollSlots : poll[t].pc \in {"fetch", "saveData", "saveHistory", "setMeta", "clean"}}

\* C6: at most one price poll cycle (loadPrices from its fetch to its last
\* store write) is in progress at any time, whichever call site asked for it.
C6_SingleCycle == Cardinality(InCycle) <= 1

\* C4: for every market key, the timestamps of the key's price_history rows
\* are non-decreasing in the order the rows were inserted.
C4_HistoryMonotonic ==
  \A i \in 1..Len(price_history) : \A j \in 1..Len(price_history) :
     (i < j /\ price_history[i].market_hash_name = price_history[j].market_hash_name)
        => price_history[i].timestamp <= price_history[j].timestamp

\* C7: price_data holds at most one row per market key, and when no call of
\* loadPrices is in flight the row of a key carries the price of the most
\* recently fetched payload that had the key.
C7_PriceCache ==
  /\ \A k \in Keys : Cardinality(PriceRows(price_data, k)) <= 1
  /\ Polling = {} =>
       \A k \in Keys :
          latestFetched[k] # NullInt =>
             \E r \in PriceRows(price_data, k) : price_data[r].price = latestFetched[k]

\* C10: loadPrices never waits for savePriceSnapshotToSupabase: no call of
\* loadPrices is suspended on the cloud write.
C10_Detached == \A t \in PollSlots : poll[t].pc # "cloud"
\* ------------------------------------------------------- history query
\* Everything a history query leaves alone.
besidesQuery == <<catalogVars, priceVars, sideVars>>

\* ORDER BY timestamp ASC (rows of equal timestamp keep their order).
RECURSIVE OrderByTimestamp(_)
OrderByTimestamp(rows) ==
  IF rows = <<>> THEN <<>>
  ELSE LET m == CHOOSE k \in 1..Len(rows) :
                  \A j \in 1..Len(rows) :
                     \/ rows[k].timestamp < rows[j].timestamp
                     \/ rows[k].timestamp = rows[j].timestamp /\ k <= j
           rest == [j \in 1..(Len(rows) - 1) |-> IF j < m THEN rows[j] ELSE rows[j + 1]]
       IN  <<rows[m]>> \o OrderByTimestamp(rest)

\* getPriceHistory: the local log's points of a key since daysBack days.
getPriceHistory(tbl, marketHashName, daysBack) ==
  LET cutoffTime == now - daysBack * DaySeconds
      wanted(r) == r.market_hash_name = marketHashName /\ r.timestamp >= cutoffTime
      point(r) == [price |-> r.price, timestamp |-> r.timestamp]
      rows == OrderByTimestamp(SelectSeq(tbl, wanted))
  IN  [k \in 1..Len(rows) |-> point(rows[k])]

\* The select on price_snapshots and the extraction of one key's points:
\* snapshots since the cutoff in timestamp order, those without the key or
\* with a price that is not > 0 dropped.
SnapshotPoints(tbl, marketHashName, days) ==
  LET cutoffTime == now - days * DaySeconds
      recent(r) == r.timestamp >= cutoffTime
      has(r) == /\ marketHashName \in DOMAIN r.prices
                /\ PriceOf(r.prices[marketHashName]) > 0
      rows == SelectSeq(OrderByTimestamp(SelectSeq(tbl, recent)), has)
  IN  [k \in 1..Len(rows) |->
         [price |-> PriceOf(rows[k].prices[marketHashName]), timestamp |-> rows[k].timestamp]]

\* history.filter((item) => now - item.timestamp <= periodMs[period])
FilterPeriod(history, period) ==
  LET within(item) == now - item.timestamp <= PeriodSeconds[period] IN
  SelectSeq(history, within)

\* loadPriceHistory after getSkinPriceHistoryFromSupabase has returned:
\* filter, setPriceHistory, and setLoading(false) in the finally block.
QueryReturned(history, outcome) ==
  /\ chart' = [loading |-> FALSE, priceHistory |-> FilterPeriod(history, query'.period)]
  /\ answered' = [marketHashName |-> query'.marketHashName, period |-> query'.period,
                  outcome |-> outcome, history |-> history]

\* A render that takes a single point for a series.
PriceChartViewLax ==
  IF chart.loading THEN "loading"
  ELSE IF Len(chart.priceHistory) < 1 THEN "insufficient"
  ELSE "trend"

\* What PriceChart renders: the spinner while loading, the "Building Price
\* History" view under 2 points, the chart with its price change otherwise.
PriceChartView ==
  IF chart.loading THEN "loading"
  ELSE IF Len(chart.priceHistory) < 2 THEN "insufficient"
  ELSE "trend"

\* The chart's effect: setLoading(true), then the cloud read.  Without a
\* configured replica getSkinPriceHistoryFromSupabase returns [] at once; with
\* one it awaits supabase.rpc("get_price_history").
loadPriceHistory(marketHashName, period) ==
  /\ query.pc = "idle"
  /\ IF supabaseConfigured
     THEN /\ query' = [pc |-> "rpc", marketHashName |-> marketHashName, period |-> period,
                       timeoutArmed |-> FALSE]
          /\ chart' = [chart EXCEPT !.loading = TRUE]
          /\ UNCHANGED answered
     ELSE /\ query' = [IdleQuery EXCEPT !.marketHashName = marketHashName, !.period = period]
          /\ QueryReturned(<<>>, "unconfigured")
  /\ UNCHANGED besidesQuery

\* The rpc answered with data and no error: its rows are returned.
RpcAnswered(data) ==
  /\ query.pc = "rpc"
  /\ query' = [query EXCEPT !.pc = "idle"]
  /\ QueryReturned(data, "optimized")
  /\ UNCHANGED besidesQuery

\* The rpc answered with an error, or threw: the standard query is sent,
\* raced against a 15 s timer.
RpcFailed ==
  /\ query.pc = "rpc"
  /\ query' = [query EXCEPT !.pc = "select", !.timeoutArmed = TRUE]
  /\ UNCHANGED <<chart, answered>>
  /\ UNCHANGED besidesQuery

\* The standard query answered with rows.
SelectAnswered ==
  /\ query.pc = "select"
  /\ query' = [query EXCEPT !.pc = "idle", !.timeoutArmed = FALSE]
  /\ QueryReturned(SnapshotPoints(snapshots, query.marketHashName, 30), "standard")
  /\ UNCHANGED besidesQuery

\* The standard query answered with an error: thrown, caught, [] returned.
SelectFailed ==
  /\ query.pc = "select"
  /\ query' = [query EXCEPT !.pc = "idle", !.timeoutArmed = FALSE]
  /\ QueryReturned(<<>>, "error")
  /\ UNCHANGED besidesQuery

\* The 15 s timer won the race: rejected, caught, [] returned.
SelectTimedOut ==
  /\ query.pc = "select"
  /\ query.timeoutArmed
  /\ query' = [query EXCEPT !.pc = "idle", !.timeoutArmed = FALSE]
  /\ QueryReturned(<<>>, "timeout")
  /\ UNCHANGED besidesQuery

\* The moment of the queries: more than the retention behind the epoch.
QueryNow == 40 * DaySeconds
\* Ages of the rows in the local log and in the replica, in days.
RowAges == {1, 10, 35}
\* At most MaxRows rows in the local log.
MaxRows == 2

LogRows == {[market_hash_name |-> k, price |-> 1, timestamp |-> QueryNow - a * DaySeconds] :
              k \in Keys, a \in RowAges}
LocalLogs ==
  {l \in SeqsUpTo(LogRows, MaxRows) : \A k \in 1..(Len(l) - 1) : l[k].timestamp <= l[k + 1].timestamp}
CloudTables ==
  {<<>>, <<[timestamp |-> QueryNow - DaySeconds, prices |-> PriceMap(<<PriceEntry("A", 1)>>)]>>}
\* What the rpc may answer.
RpcAnswers == {<<>>,
               <<[price |-> 1, timestamp |-> QueryNow - DaySeconds]>>,
               <<[price |-> 1, timestamp |-> QueryNow - 10 * DaySeconds],
                 [price |-> 1, timestamp |-> QueryNow - DaySeconds]>>}

\* A chart is mounted over a local log and a replica as earlier polls left
\* them; the catalog and the polls are left alone.
QueryInit ==
  /\ items = <<>>
  /\ lastSync = NullInt
  /\ now = QueryNow
  /\ netUp = TRUE
  /\ remote = <<>>
  /\ isConnected = TRUE
  /\ listenerConnected = TRUE
  /\ effectRan = FALSE
  /\ error = Null
  /\ isLoading = TRUE
  /\ ctxItems = {}
  /\ favorites = {}
  /\ task = [t \in Callers |-> IdleTask]
  /\ firstSync = NoFirstSync
  /\ price_data = <<>>
  /\ price_history \in LocalLogs
  /\ lastPriceUpdateMeta = NullInt
  /\ priceData = <<>>
  /\ lastPriceUpdate = NullInt
  /\ poll = [t \in PollSlots |-> IdlePoll]
  /\ pollMounted = FALSE
  /\ timers = {}
  /\ priceUpdateInterval = NullInt
  /\ appState = "active"
  /\ supabaseConfigured \in BOOLEAN
  /\ snapshots \in IF supabaseConfigured THEN CloudTables ELSE {<<>>}
  /\ fetched = 0
  /\ latestFetched = [k \in Keys |-> NullInt]
  /\ observed = NotObserved
  /\ QueryAtRest
  /\ SideAtRest

QueryNext ==
  \/ \E k \in Keys : \E p \in Periods : loadPriceHistory(k, p)
  \/ \E data \in RpcAnswers : RpcAnswered(data)
  \/ RpcFailed
  \/ SelectAnswered
  \/ SelectFailed
  \/ SelectTimedOut

SpecQuery == QueryInit /\ [][QueryNext]_vars

\* The points the local log holds for the answered query's key and window.
LocalSeries == FilterPeriod(getPriceHistory(price_history, answered.marketHashName, 30),
                            answered.period)

\* C8: when the cloud read timed out, failed, or no replica is configured,
\* the query shows the local log's points of the key within the window.
C8_Fallback ==
  (query.pc = "idle" /\ answered.outcome \in {"timeout", "error", "unconfigured"})
     => chart.priceHistory = LocalSeries

\* C9: every pending read of the cloud replica is raced against a timer, so
\* that the query ends even if the replica never answers.
C9_BoundedWait == query.pc \in {"rpc", "select"} => query.timeoutArmed
\* ------------------------------------------------------- polls one at a time
\* The local stores.
Stores == [price_data |-> price_data, price_history |-> price_history,
           lastPriceUpdateMeta |-> lastPriceUpdateMeta]

\* What earlier runs of the app may have left in the stores: nothing; key A
\* polled 35 and 30 days ago; keys A and B polled 35 days and a day ago.
AgedRow(k, days) == [market_hash_name |-> k, price |-> 1, timestamp |-> QueryNow - days * DaySeconds]
StoredRow(k) == [market_hash_name |-> k, price |-> 1, avg |-> 1]
StoredBefore ==
  { [price_data |-> <<>>, price_history |-> <<>>, lastPriceUpdateMeta |-> NullInt],
    [price_data |-> <<StoredRow("A")>>,
     price_history |-> <<AgedRow("A", 35), AgedRow("A", 30)>>,
     lastPriceUpdateMeta |-> QueryNow - 30 * DaySeconds],
    [price_data |-> <<StoredRow("A"), StoredRow("B")>>,
     price_history |-> <<AgedRow("A", 35), AgedRow("B", 35), AgedRow("A", 1), AgedRow("B", 1)>>,
     lastPriceUpdateMeta |-> QueryNow - DaySeconds] }

\* The provider is mounted, its two initial calls of loadPrices are over.
PollInit ==
  /\ items = <<>>
  /\ lastSync = NullInt
  /\ now = QueryNow
  /\ netUp \in BOOLEAN
  /\ remote = <<>>
  /\ isConnected = netUp
  /\ listenerConnected = TRUE
  /\ effectRan = FALSE
  /\ error = Null
  /\ isLoading = TRUE
  /\ ctxItems = {}
  /\ favorites = {}
  /\ task = [t \in Callers |-> IdleTask]
  /\ firstSync = NoFirstSync
  /\ \E st \in StoredBefore :
        /\ price_data = st.price_data
        /\ price_history = st.price_history
        /\ lastPriceUpdateMeta = st.lastPriceUpdateMeta
        /\ latestFetched = [k \in Keys |->
                              IF PriceRows(st.price_data, k) = {} THEN NullInt ELSE 1]
  /\ priceData = <<>>
  /\ lastPriceUpdate = NullInt
  /\ poll = [t \in PollSlots |-> IdlePoll]
  /\ pollMounted = TRUE
  /\ timers = {1}
  /\ priceUpdateInterval = 1
  /\ appState = "active"
  /\ supabaseConfigured \in BOOLEAN
  /\ snapshots = <<>>
  /\ fetched = 0
  /\ observed = NotObserved
  /\ QueryAtRest
  /\ SideAtRest

\* The call sites, taken while no call of loadPrices is running.
TimerFireAlone(id) == Polling = {} /\ TimerFire(id) /\ UNCHANGED observed
AppStateChangeAlone(nextAppState) ==
  Polling = {} /\ AppStateChange(nextAppState) /\ UNCHANGED observed
ConnectivityChangeAlone(connected) ==
  Polling = {} /\ ConnectivityChange(connected) /\ UNCHANGED observed
ManualRefreshAlone == Polling = {} /\ ManualRefresh /\ UNCHANGED observed

\* The steps of the call, and what the observer notes of them: the stores
\* and the payload when the fetch answers, the clock of savePriceHistory and
\* of cleanOldPriceHistory, and how the call ended.
ObservedCacheRead(t) == PollCacheRead(t) /\ UNCHANGED observed
ObservedCacheMeta(t) ==
  /\ PollCacheMeta(t)
  /\ observed' = [NotObserved EXCEPT !.outcome = "cached", !.price_data = price_data,
                                     !.price_history = price_history,
                                     !.lastPriceUpdateMeta = lastPriceUpdateMeta]
ObservedFetchNull(t) ==
  /\ PollFetchNull(t)
  /\ observed' = [NotObserved EXCEPT !.outcome = "fetchFailed", !.price_data = price_data,
                                     !.price_history = price_history,
                                     !.lastPriceUpdateMeta = lastPriceUpdateMeta]
ObservedFetched(t, prices) ==
  /\ PollFetched(t, prices)
  /\ observed' = [NotObserved EXCEPT !.outcome = "running", !.prices = prices,
                                     !.timestamp = now, !.price_data = price_data,
                                     !.price_history = price_history,
                                     !.lastPriceUpdateMeta = lastPriceUpdateMeta]
ObservedSaveData(t) == PollSaveData(t) /\ UNCHANGED observed
ObservedSaveHistory(t) == PollSaveHistory(t) /\ UNCHANGED observed
ObservedSetMeta(t) ==
  /\ PollSetMeta(t)
  /\ observed' = [observed EXCEPT !.histTs = poll[t].histTs]
ObservedClean(t) ==
  /\ PollClean(t)
  /\ observed' = [observed EXCEPT !.cleanedAt = now,
                                  !.outcome = IF supabaseConfigured THEN "cleaned" ELSE "skipped"]
ObservedCloudSaved(t) ==
  /\ PollCloudSaved(t)
  /\ observed' = [observed EXCEPT !.outcome = "saved"]
ObservedCloudError(t) ==
  /\ PollCloudError(t)
  /\ observed' = [observed EXCEPT !.outcome = "failed"]

PollNext ==
  \/ \E id \in 1..MaxTimers : TimerFireAlone(id)
  \/ \E a \in {"active", "background"} : AppStateChangeAlone(a)
  \/ \E c \in BOOLEAN : ConnectivityChangeAlone(c)
  \/ ManualRefreshAlone
  \/ \E t \in PollSlots :
        \/ ObservedCacheRead(t)
        \/ ObservedCacheMeta(t)
        \/ ObservedFetchNull(t)
        \/ \E prices \in PriceInputs : ObservedFetched(t, prices)
        \/ ObservedSaveData(t)
        \/ ObservedSaveHistory(t)
        \/ ObservedSetMeta(t)
        \/ ObservedClean(t)
        \/ ObservedCloudSaved(t)
        \/ ObservedCloudError(t)

SpecPoll == PollInit /\ [][PollNext]_vars
\* ------------------------------------------------------- polls one at a time: properties
\* The observed call went through all its local writes and has returned.
CycleOver == Polling = {} /\ observed.outcome \in {"saved", "failed", "skipped"}

\* The local stores as the observed payload alone determines them.
LocalAfter ==
  [price_data |-> savePriceData(observed.price_data, observed.prices, 1),
   price_history |->
     cleanOldPriceHistory(
       savePriceHistory(observed.price_history, observed.prices, observed.histTs, 1),
       30, observed.cleanedAt),
   lastPriceUpdateMeta |-> observed.timestamp]

\* C11: a cloud write that fails or is skipped never leaves the poll cycle
\* and never touches its local writes: after the cycle price_data,
\* price_history and the lastPriceUpdate metadata are what the payload alone
\* determines, whether the cloud write succeeded, failed or was skipped.
C11_CloudFailureLocal == CycleOver => Stores = LocalAfter

C11_Witness ==
  /\ CycleOver
  /\ observed.outcome = "failed"
  /\ \E k \in 1..Len(observed.prices) : PriceOf(observed.prices[k].info) > 0
  /\ Stores = LocalAfter
  /\ Stores # [price_data |-> observed.price_data, price_history |-> observed.price_history,
               lastPriceUpdateMeta |-> observed.lastPriceUpdateMeta]

\* C15: a key no poll ever stored has no entry in the cached-price read; a
\* key that was stored reads as its last stored value, and a poll whose
\* fetch fails leaves price_data and price_history as they were.
C15_OfflineRead ==
  Polling = {} =>
    /\ \A k \in Keys :
          IF latestFetched[k] = NullInt
          THEN k \notin DOMAIN getPriceData(price_data)
          ELSE /\ k \in DOMAIN getPriceData(price_data)
               /\ getPriceData(price_data)[k].price = latestFetched[k]
    /\ observed.outcome = "fetchFailed" =>
          /\ price_data = observed.price_data
          /\ price_history = observed.price_history

C15_Witness ==
  /\ Polling = {}
  /\ observed.outcome = "fetchFailed"
  /\ fetched >= 1
  /\ latestFetched["A"] # NullInt
  /\ latestFetched["B"] = NullInt
  /\ getPriceData(price_data)["A"].price = latestFetched["A"]

\* The history rows the observed cycle found and did not prune.
KeptHistory == cleanOldPriceHistory(observed.price_history, 30, observed.cleanedAt)
\* The keys of the observed payload, and those with a price > 0.
ObservedKeys == DOMAIN PriceMap(observed.prices)
PositiveKeys == {k \in ObservedKeys : PriceOf(PriceMap(observed.prices)[k]) > 0}

\* C16: a successful poll cycle leaves exactly one price_data row for every
\* key of the price map, carrying the map's price, leaves the rows of other
\* keys alone, and appends exactly one price_history row for every key whose
\* price is > 0 and none for the other keys.
C16_RefreshSemantics ==
  CycleOver =>
    /\ \A k \in ObservedKeys :
          /\ Cardinality(PriceRows(price_data, k)) = 1
          /\ \A r \in PriceRows(price_data, k) :
                price_data[r].price = PriceOf(PriceMap(observed.prices)[k])
    /\ \A k \in Keys \ ObservedKeys :
          {price_data[r] : r \in PriceRows(price_data, k)}
             = {observed.price_data[r] : r \in PriceRows(observed.price_data, k)}
    /\ Len(price_history) = Len(KeptHistory) + Cardinality(PositiveKeys)
    /\ SubSeq(price_history, 1, Len(KeptHistory)) = KeptHistory
    /\ \A k \in PositiveKeys :
          \E j \in (Len(KeptHistory) + 1)..Len(price_history) :
             price_history[j] = [market_hash_name |-> k,
                                 price |-> PriceOf(PriceMap(observed.prices)[k]),
                                 timestamp |-> observed.histTs]

C16_Witness ==
  /\ CycleOver
  /\ observed.prices = <<[market_hash_name |-> "A", info |-> [price |-> 1, avg |-> 1]],
                         [market_hash_name |-> "B", info |-> [price |-> 0, avg |-> 0]]>>
  /\ PriceRows(observed.price_data, "A") # {}
  /\ PriceRows(price_data, "A") # {}
  /\ PriceRows(price_data, "B") # {}
  /\ Len(price_history) = Len(KeptHistory) + 1

\* C17: every price_history row has a price > 0, whatever the payloads
\* (prices of 0, negative prices, entries with an avg and no price).
C17_PositiveHistory == \A i \in 1..Len(price_history) : price_history[i].price > 0

C17_Witness ==
  /\ CycleOver
  /\ \E k \in 1..Len(observed.prices) : observed.prices[k].info = [price |-> NegativePrice, avg |-> NegativePrice]
  /\ \E k \in 1..Len(observed.prices) : observed.prices[k].info = [avg |-> 1]
  /\ Len(price_history) = Len(KeptHistory) + 1

\* C18: the step in which cleanOldPriceHistory(30) completes leaves no
\* price_history row older than now minus 30 days, and keeps every row at or
\* newer than that cutoff, in its place.
C18_Retention ==
  [][\A t \in PollSlots :
       (poll[t].pc = "clean" /\ poll'[t].pc # "clean") =>
          LET cutoffTime == now - 30 * DaySeconds
              fresh(r) == r.timestamp >= cutoffTime
          IN  /\ \A i \in 1..Len(price_history') : price_history'[i].timestamp >= cutoffTime
              /\ price_history' = SelectSeq(price_history, fresh)]_vars

C18_Witness ==
  /\ observed.outcome \in {"cleaned", "skipped"}
  /\ observed.cleanedAt = now
  /\ \E i \in 1..Len(observed.price_history) :
        observed.price_history[i].timestamp < now - 30 * DaySeconds
  /\ \E i \in 1..Len(price_history) : price_history[i].timestamp = now - 30 * DaySeconds
  /\ \A i \in 1..Len(price_history) : price_history[i].timestamp >= now - 30 * DaySeconds
\* ------------------------------------------------------- catalog: failures, warm start
\* C12: a background sync that fails leaves the items table and the served
\* list as they were and leaves the context's error null.
C12_BackgroundFailureSilent ==
  task["background"].pc = "threw" =>
    /\ items = task["background"].pre
    /\ ctxItems = getAllItems(items)
    /\ error = Null

\* The calls of syncFromAPI that are past the check of the response.
PastCheck == {t \in Callers : task[t].pc \in {"insert", "setMeta", "reload", "returned"}}

\* C13: an empty remote catalog never gets past syncFromAPI's check: the
\* call rejects with "No data received from API", and the items table and the
\* lastSync metadata are as they were when it was called.
C13_EmptyRemote ==
  \A t \in Callers :
     /\ t \in PastCheck => task[t].apiData # <<>>
     /\ (task[t].pc = "threw" /\ task[t].result = ErrNoData) =>
           /\ items = task[t].pre
           /\ lastSync = task[t].preSync

C13_Witness ==
  \E t \in Callers :
     /\ task[t].pc = "threw"
     /\ task[t].result = ErrNoData
     /\ remote = <<>>
     /\ items # <<>>
     /\ lastSync # NullInt

\* C19: loadData over a non-empty table serves the stored items and clears
\* loading before it reads lastSync; a background resync over a recorded
\* lastSync runs only if the record is more than 24 hours old; and loadData
\* has returned while that resync runs.
C19_WarmStart ==
  /\ \A t \in LoadCallers :
        task[t].pc = "getMeta" =>
           /\ ctxItems = getAllItems(items)
           /\ ctxItems # {}
           /\ ~isLoading
           /\ task["background"].pc = "idle"
  /\ (task["background"].pc \in {"netinfo", "fetch", "insert"}
      /\ task["background"].preSync # NullInt) =>
        now - task["background"].preSync > StaleSeconds
  /\ task["background"].pc # "idle" => \A t \in LoadCallers : task[t].pc = "idle"

C19_Witness ==
  /\ task["background"].pc = "netinfo"
  /\ task["background"].preSync # NullInt
  /\ now - task["background"].preSync > StaleSeconds
  /\ ctxItems # {}
  /\ ~isLoading
  /\ \A t \in LoadCallers : task[t].pc = "idle"
\* ------------------------------------------------------- history query: the view
\* The series the answered query resolved for its window.
ResolvedSeries == FilterPeriod(answered.history, answered.period)

\* C20: once a query has resolved, a series of zero or one point in the
\* window is shown as insufficient data, and a trend is shown only for a
\* series of at least 2 points.
C20_InsufficientData ==
  (query.pc = "idle" /\ answered.outcome # Null) =>
     /\ Len(ResolvedSeries) < 2 => PriceChartView = "insufficient"
     /\ PriceChartView = "trend" => Len(ResolvedSeries) >= 2

C20_Witness ==
  /\ query.pc = "idle"
  /\ answered.outcome = "optimized"
  /\ Len(answered.history) = 2
  /\ Len(ResolvedSeries) = 1
  /\ PriceChartView = "insufficient"
\* ------------------------------------------------------- the polling scheduler
\* The feed as the scheduler's runs see it: one quote for one key.
FeedSample == {<<PriceEntry("A", 1)>>}

\* Time passes between calls of loadPrices: a call is short against the
\* clock's unit.
TickBetweenPolls == Polling = {} /\ Tick

\* Mount, effect re-runs, timer fires, resumes, refreshes and unmount, with
\* the calls of loadPrices they start running side by side.  The observer
\* notes of each event: its kind (for an AppState change, the new state), the
\* clock, isConnected and appState.current before it, how many calls of
\* loadPrices it started, and when a call was last started before it.
SchedulerNoted(kind) ==
  observed' = [NotObserved EXCEPT
                 !.outcome = kind,
                 !.timestamp = now,
                 !.started = Cardinality(Polling') - Cardinality(Polling),
                 !.connected = isConnected,
                 !.appState = appState,
                 !.lastStart = IF observed.started > 0 THEN observed.timestamp
                               ELSE observed.lastStart]

SchedulerNext ==
  \/ MountEffects /\ SchedulerNoted("mount")
  \/ Unmount /\ SchedulerNoted("unmount")
  \/ \E id \in 1..MaxTimers : TimerFire(id) /\ SchedulerNoted("timer")
  \/ \E a \in {"active", "background"} : AppStateChange(a) /\ SchedulerNoted(a)
  \/ \E c \in BOOLEAN : ConnectivityChange(c) /\ SchedulerNoted("connectivity")
  \/ ManualRefresh /\ SchedulerNoted("refresh")
  \/ TickBetweenPolls
  \/ \E t \in PollSlots :
        \/ PollCacheRead(t) /\ UNCHANGED observed
        \/ PollCacheMeta(t) /\ UNCHANGED observed
        \/ PollFetchNull(t) /\ UNCHANGED observed
        \/ \E prices \in FeedSample : PollFetched(t, prices) /\ UNCHANGED observed
        \/ PollSaveData(t) /\ UNCHANGED observed
        \/ PollSaveHistory(t) /\ UNCHANGED observed
        \/ PollSetMeta(t) /\ UNCHANGED observed
        \/ PollClean(t) /\ UNCHANGED observed
        \/ PollCloudSaved(t) /\ UNCHANGED observed
        \/ PollCloudError(t) /\ UNCHANGED observed

SpecScheduler == PricesInit /\ [][SchedulerNext]_vars

\* Every live interval is the one the current run of the polling effect set.
LiveTimersCurrent ==
  /\ pollMounted => timers = {priceUpdateInterval}
  /\ ~pollMounted => timers = {}

\* A step of a running call of loadPrices.
PollStep == \E t \in PollSlots : poll[t].pc # "idle" /\ poll'[t] # poll[t]

\* C14: once the polling effect's cleanup has run (unmount or re-run) the
\* interval it had set is no longer live, so no callback of it starts a
\* poll; a call of loadPrices running at teardown goes on with its writes and
\* never sets an interval.
C14_Cancellation == [](LiveTimersCurrent) /\ [][PollStep => timers' = timers]_vars

C14_Witness ==
  /\ Unmounted
  /\ timers = {}
  /\ \E t \in PollSlots : poll[t].pc = "clean"
  /\ price_history # <<>>
\* ------------------------------------------------------- the polling scheduler: events
\* C21: a timer fire while the app is in the background is skipped: it
\* starts no call of loadPrices.
C21_SuspendedPolling ==
  observed.outcome = "timer" /\ observed.appState # "active" => observed.started = 0

\* C22: a resume at the very instant a poll was last started (no time has
\* passed, so no debounce threshold is exceeded) starts no poll.
C22_ResumeDebounce ==
  (/\ observed.outcome = "active"
   /\ observed.appState = "background"
   /\ observed.lastStart = observed.timestamp)
  => observed.started = 0

\* C23: when the database is initialised the interval is set and exactly
\* one call of loadPrices is started.
C23_OneImmediatePoll ==
  observed.outcome = "mount" => observed.started = 1 /\ timers = {priceUpdateInterval}

\* A step in which a call of loadPrices begins its remote fetch.
FetchStarted == \E t \in PollSlots : poll[t].pc # "fetch" /\ poll'[t].pc = "fetch"
TimerOrResume ==
  \/ \E id \in 1..MaxTimers : TimerFire(id)
  \/ appState = "background" /\ AppStateChange("active")

\* C24: a timer fire or a resume starts a remote fetch only while
\* isConnected is true; while it is false they start no fetch and leave
\* price_data and price_history as they are.
C24_ConnectivityGating ==
  [][TimerOrResume =>
       /\ FetchStarted => isConnected
       /\ ~isConnected => ~FetchStarted /\ UNCHANGED <<price_data, price_history, fetched>>]_vars

C24_Witness ==
  /\ observed.outcome \in {"timer", "active"}
  /\ ~observed.connected
  /\ observed.started = 0
  /\ fetched > 0
  /\ Polling = {}

\* C30: at most one interval is set at any time, and none after unmount.
C30_SingleTimer ==
  /\ Cardinality(timers) <= 1
  /\ Unmounted => timers = {}

C30_Witness ==
  /\ Unmounted
  /\ timers = {}
  /\ observed.outcome = "unmount"
  /\ observed.lastStart # NullInt
  /\ ~observed.connected
FeedPairs == {<<PriceEntry("A", 1)>>, <<PriceEntry("A", 1), PriceEntry("B", 1)>>}

\* The observer notes that the call's try block was left by a rejection; in
\* the offline branch it notes the stores as well.
ObservedStoreThrew(t) ==
  /\ PollStoreThrew(t)
  /\ observed' = IF poll[t].pc \in {"cacheRead", "cacheMeta"}
                 THEN [NotObserved EXCEPT !.outcome = "threw", !.price_data = price_data,
                                          !.price_history = price_history,
                                          !.lastPriceUpdateMeta = lastPriceUpdateMeta]
                 ELSE [observed EXCEPT !.outcome = "threw"]
ObservedCatchRead(t) ==
  /\ PollCatchRead(t)
  /\ observed' = [observed EXCEPT !.outcome = "caught"]
ObservedCatchReadThrew(t) ==
  /\ PollCatchReadThrew(t)
  /\ observed' = [observed EXCEPT !.outcome = "caught"]

\* Polls one at a time, any of whose store calls may reject.
FaultsNext ==
  \/ \E id \in 1..MaxTimers : TimerFireAlone(id)
  \/ \E a \in {"active", "background"} : AppStateChangeAlone(a)
  \/ \E c \in BOOLEAN : ConnectivityChangeAlone(c)
  \/ ManualRefreshAlone
  \/ \E t \in PollSlots :
        \/ ObservedCacheRead(t)
        \/ ObservedCacheMeta(t)
        \/ ObservedFetchNull(t)
        \/ \E prices \in FeedPairs : ObservedFetched(t, prices)
        \/ ObservedSaveData(t)
        \/ ObservedSaveHistory(t)
        \/ ObservedSetMeta(t)
        \/ ObservedClean(t)
        \/ ObservedCloudSaved(t)
        \/ ObservedCloudError(t)
        \/ ObservedStoreThrew(t)
        \/ ObservedCatchRead(t)
        \/ ObservedCatchReadThrew(t)

SpecFaults == PollInit /\ [][FaultsNext]_vars

\* C26: a call of loadPrices that a failure ended has returned (no call is
\* left suspended and nothing is thrown to its caller), and price_data,
\* price_history and the lastPriceUpdate record are what they were before it.
C26_FailureLeavesState ==
  (observed.outcome \in {"caught", "fetchFailed"} /\ Polling = {}) =>
     /\ getPriceData(price_data) = getPriceData(observed.price_data)
     /\ price_history = observed.price_history
     /\ lastPriceUpdateMeta = observed.lastPriceUpdateMeta
\* ------------------------------------------------------- migration from AsyncStorage
\* Description of the items the legacy store holds.
LegacyDescription == "v0"

\* What AsyncStorage may hold when the database is first opened: a list of
\* items (ids ascending) and a favorites map over some of them.
LegacyStores ==
  {[completed |-> c, items |-> q, favorites |-> F] :
      c \in BOOLEAN,
      q \in {r \in SeqsUpTo(Ids, MaxId) : \A k \in 1..(Len(r) - 1) : r[k] < r[k + 1]},
      F \in SUBSET Ids} \cap
  {st \in [completed : BOOLEAN, items : SeqsUpTo(Ids, MaxId), favorites : SUBSET Ids] :
      st.favorites \subseteq {st.items[k] : k \in 1..Len(st.items)}}

\* itemsWithFavorites: isFavorite: !!favorites[item._id || item.id].
ItemsWithFavorites(legacyItems, legacyFavorites) ==
  [k \in 1..Len(legacyItems) |->
     [id |-> legacyItems[k], description |-> LegacyDescription,
      isFavorite |-> legacyItems[k] \in legacyFavorites]]

besidesMigration ==
  <<now, netUp, remote, isConnected, listenerConnected, effectRan, error, isLoading,
    ctxItems, favorites, task, firstSync, priceVars, queryVars, toggles, toggleLog>>

\* initDB after initDatabase() and setDbInitialized(true):
\* migrateFromAsyncStorage() up to its first await.
MigrationStart ==
  /\ migration.pc = "idle"
  /\ migration' = [migration EXCEPT !.pc = "getCompleted"]
  /\ UNCHANGED <<items, lastSync, asyncStorage, besidesMigration>>

\* After AsyncStorage.getItem("@migration_completed").
MigrationGetCompleted ==
  /\ migration.pc = "getCompleted"
  /\ migration' = IF asyncStorage.completed
                  THEN [migration EXCEPT !.pc = "returned", !.migrated = FALSE,
                                         !.reason = "already_completed"]
                  ELSE [migration EXCEPT !.pc = "getItems"]
  /\ UNCHANGED <<items, lastSync, asyncStorage, besidesMigration>>

\* After AsyncStorage.getItem("@csgo_items").
MigrationGetItems ==
  /\ migration.pc = "getItems"
  /\ migration' = [migration EXCEPT !.pc = "getFavorites", !.items = asyncStorage.items]
  /\ UNCHANGED <<items, lastSync, asyncStorage, besidesMigration>>

\* After AsyncStorage.getItem("@csgo_favorites"): with no items the
\* migration is only marked; else insertItems(itemsWithFavorites) begins.
MigrationGetFavorites ==
  /\ migration.pc = "getFavorites"
  /\ migration' = IF migration.items = <<>>
                  THEN [migration EXCEPT !.pc = "markNoData"]
                  ELSE [migration EXCEPT !.pc = "insert", !.i = 1,
                                         !.favorites = asyncStorage.favorites]
  /\ UNCHANGED <<items, lastSync, asyncStorage, besidesMigration>>

\* AsyncStorage.setItem("@migration_completed", "true") with nothing to
\* migrate: { migrated: false, reason: "no_data" }.
MigrationMarkNoData ==
  /\ migration.pc = "markNoData"
  /\ asyncStorage' = [asyncStorage EXCEPT !.completed = TRUE]
  /\ migration' = [migration EXCEPT !.pc = "returned", !.migrated = FALSE, !.reason = "no_data"]
  /\ UNCHANGED <<items, lastSync, besidesMigration>>

\* insertItems(itemsWithFavorites): one iteration.
MigrationInsert ==
  /\ migration.pc = "insert"
  /\ items' = UpsertItem(items,
                         ItemsWithFavorites(migration.items, migration.favorites)[migration.i])
  /\ migration' = IF migration.i = Len(migration.items)
                  THEN [migration EXCEPT !.pc = "setMeta"]
                  ELSE [migration EXCEPT !.i = migration.i + 1]
  /\ UNCHANGED <<lastSync, asyncStorage, besidesMigration>>

\* setMetadata("lastSync", Date.now()).
MigrationSetMeta ==
  /\ migration.pc = "setMeta"
  /\ lastSync' = now
  /\ migration' = [migration EXCEPT !.pc = "mark"]
  /\ UNCHANGED <<items, asyncStorage, besidesMigration>>

\* AsyncStorage.setItem("@migration_completed", "true"); { migrated: true }.
MigrationMark ==
  /\ migration.pc = "mark"
  /\ asyncStorage' = [asyncStorage EXCEPT !.completed = TRUE]
  /\ migration' = [migration EXCEPT !.pc = "returned", !.migrated = TRUE]
  /\ UNCHANGED <<items, lastSync, besidesMigration>>

\* An await of the migration rejected: the catch returns { migrated: false }.
MigrationThrew ==
  /\ migration.pc \notin {"idle", "returned"}
  /\ migration' = [migration EXCEPT !.pc = "returned", !.migrated = FALSE]
  /\ UNCHANGED <<items, lastSync, asyncStorage, besidesMigration>>

\* A new database file beside a legacy store; initDB has set dbInitialized.
MigrationInit ==
  /\ items = <<>>
  /\ lastSync = NullInt
  /\ now = 1
  /\ netUp \in BOOLEAN
  /\ remote \in Payloads
  /\ isConnected = TRUE
  /\ listenerConnected = TRUE
  /\ effectRan = FALSE
  /\ error = Null
  /\ isLoading = TRUE
  /\ ctxItems = {}
  /\ favorites = {}
  /\ task = [t \in Callers |-> IdleTask]
  /\ firstSync = NoFirstSync
  /\ PricesAtRest
  /\ QueryAtRest
  /\ asyncStorage \in LegacyStores
  /\ migration = IdleMigration
  /\ toggles = [k \in ToggleSlots |-> IdleToggle]
  /\ toggleLog = NoToggles

\* The migration beside the loadData of the [dbInitialized] effect.
MigrationNext ==
  \/ MigrationStart
  \/ MigrationGetCompleted
  \/ MigrationGetItems
  \/ MigrationGetFavorites
  \/ MigrationMarkNoData
  \/ MigrationInsert
  \/ MigrationSetMeta
  \/ MigrationMark
  \/ MigrationThrew
  \/ InitialLoadEffect
  \/ \E t \in Callers :
        \/ LoadDataRead(t)
        \/ LoadDataMeta(t)
        \/ SyncNetInfo(t)
        \/ SyncFetchFails(t)
        \/ SyncFetched(t)
        \/ SyncInsert(t)
        \/ SyncSetMeta(t)
        \/ SyncReload(t)
        \/ SyncReturned(t)
        \/ SyncThrew(t)

SpecMigration == MigrationInit /\ [][MigrationNext]_vars

\* C27: once migrateFromAsyncStorage has returned migrated: true, every id
\* of the legacy favorites map has isFavorite = 1 in the items table.
C27_LegacyFavorites ==
  (migration.pc = "returned" /\ migration.migrated) =>
     \A id \in asyncStorage.favorites :
        id \in RowIds(items) /\ RowOf(items, id).isFavorite = 1
\* ------------------------------------------------------- favorite toggles
\* UPDATE items SET isFavorite = ? WHERE id = ?
UpdateIsFavorite(tbl, id, isFavorite) ==
  [k \in 1..Len(tbl) |->
     IF tbl[k].id = id THEN [tbl[k] EXCEPT !.isFavorite = IF isFavorite THEN 1 ELSE 0]
     ELSE tbl[k]]

Toggling == {k \in ToggleSlots : toggles[k].pc # "idle"}
besidesToggles ==
  <<lastSync, now, netUp, remote, isConnected, listenerConnected, effectRan, error,
    isLoading, task, firstSync, priceVars, queryVars, asyncStorage, migration>>

\* The ids a sync is writing between its first and its last upsert.
MidSyncIds ==
  UNION {PayloadIds(task[t].apiData) :
           t \in {c \in Callers : task[c].pc = "insert" /\ task[c].i > 1}}

\* toggleFavorite(itemId) of the context, on an item the lists show, up to
\* its await: isFav is read from the favorites of the render that made the
\* callback.
ToggleCall(itemId) ==
  /\ ToggleSlots \ Toggling # {}
  /\ itemId \in {r.id : r \in ctxItems}
  /\ LET k == CHOOSE f \in ToggleSlots \ Toggling : \A g \in ToggleSlots \ Toggling : f <= g
     IN  toggles' = [toggles EXCEPT ![k] = [pc |-> "update", itemId |-> itemId,
                                            newIsFav |-> itemId \notin favorites,
                                            favorites |-> favorites]]
  /\ UNCHANGED <<items, ctxItems, favorites, toggleLog, besidesToggles>>

\* After toggleFavoriteDB resolved: setFavorites(newFavorites) built from the
\* favorites the callback closed over, setItems with the flag replaced.
ToggleUpdated(k) ==
  /\ toggles[k].pc = "update"
  /\ LET itemId == toggles[k].itemId
         newIsFav == toggles[k].newIsFav
     IN  /\ items' = UpdateIsFavorite(items, itemId, newIsFav)
         /\ favorites' = IF newIsFav THEN toggles[k].favorites \cup {itemId}
                         ELSE toggles[k].favorites \ {itemId}
         /\ ctxItems' = {IF r.id = itemId THEN [r EXCEPT !.isFavorite = newIsFav] ELSE r :
                           r \in ctxItems}
         /\ toggleLog' = [expected |-> [toggleLog.expected EXCEPT ![itemId] = 1 - @],
                          last |-> [itemId |-> itemId, newIsFav |-> newIsFav,
                                    midSync |-> itemId \in MidSyncIds]]
  /\ toggles' = [toggles EXCEPT ![k] = IdleToggle]
  /\ UNCHANGED besidesToggles

\* toggleFavoriteDB rejected: the catch logs, nothing is set.
ToggleThrew(k) ==
  /\ toggles[k].pc = "update"
  /\ toggles' = [toggles EXCEPT ![k] = IdleToggle]
  /\ UNCHANGED <<items, ctxItems, favorites, toggleLog, besidesToggles>>

\* What the API serves beside the toggles: records of distinct ids, each
\* with a description.
TogglePayloads ==
  {p \in Payloads : DistinctIds(p) /\ \A k \in 1..Len(p) : p[k].description # Null}

\* A stored catalog that loadData has served; nothing is running.
ToggleInit ==
  /\ items \in InitTables \ {<<>>}
  /\ lastSync = 1
  /\ now = 1
  /\ netUp \in BOOLEAN
  /\ remote \in TogglePayloads
  /\ isConnected = TRUE
  /\ listenerConnected = TRUE
  /\ effectRan = TRUE
  /\ error = Null
  /\ isLoading = FALSE
  /\ ctxItems = getAllItems(items)
  /\ favorites = FavMap(getAllItems(items))
  /\ task = [t \in Callers |-> IdleTask]
  /\ firstSync = NoFirstSync
  /\ PricesAtRest
  /\ QueryAtRest
  /\ asyncStorage = NoLegacy
  /\ migration = IdleMigration
  /\ toggles = [k \in ToggleSlots |-> IdleToggle]
  /\ toggleLog = [expected |-> [id \in Ids |-> SelectIsFavorite(items, id)], last |-> NoToggle]

\* One toggle at a time beside one pull-to-refresh sync at a time.
ToggleCallAlone(itemId) == Toggling = {} /\ ToggleCall(itemId)
FavoritesNext ==
  \/ \E itemId \in Ids : ToggleCallAlone(itemId)
  \/ \E k \in ToggleSlots : ToggleUpdated(k)
  \/ \E k \in ToggleSlots : ToggleThrew(k)
  \/ ManualSyncAlone
  \/ \E t \in SyncCallers :
        \/ SyncNetInfo(t)
        \/ SyncFetchFails(t)
        \/ SyncFetched(t)
        \/ SyncInsert(t)
        \/ SyncSetMeta(t)
        \/ SyncReload(t)
        \/ SyncReturned(t)
        \/ SyncThrew(t)

SpecFavorites == ToggleInit /\ [][FavoritesNext]_vars

\* Toggles that overlap.
TogglesNext ==
  \/ \E itemId \in Ids : ToggleCall(itemId)
  \/ \E k \in ToggleSlots : ToggleUpdated(k)
  \/ \E k \in ToggleSlots : ToggleThrew(k)

SpecToggles == ToggleInit /\ [][TogglesNext]_vars

\* C28: when a toggle's UPDATE ran between the first and the last upsert of
\* a sync whose payload holds its id, and no write of that sync is pending,
\* the stored flag of the id is the value the toggle wrote.
C28_ToggleKept ==
  (/\ toggleLog.last.midSync
   /\ Toggling = {}
   /\ \A t \in Callers : task[t].pc # "insert")
  => RowOf(items, toggleLog.last.itemId).isFavorite =
       (IF toggleLog.last.newIsFav THEN 1 ELSE 0)

\* A sync returned during whose upserts an item it had not yet reached was
\* made a favorite.
C28_Witness ==
  /\ toggleLog.last.midSync
  /\ toggleLog.last.newIsFav
  /\ Toggling = {}
  /\ \E t \in Callers :
       /\ task[t].pc = "returned"
       /\ Len(task[t].apiData) >= 2
       /\ task[t].apiData[Len(task[t].apiData)].id = toggleLog.last.itemId
       /\ SelectIsFavorite(task[t].pre, toggleLog.last.itemId) = 0
  /\ RowOf(items, toggleLog.last.itemId).isFavorite = 1

\* C29: when every call of toggleFavorite has completed, the stored flag of
\* each id is its original flag flipped once per call, and the favorites map
\* holds the id exactly when the stored flag is 1.
C29_ToggleParity ==
  Toggling = {} =>
    \A id \in RowIds(items) :
       /\ RowOf(items, id).isFavorite = toggleLog.expected[id]
       /\ id \in favorites <=> RowOf(items, id).isFavorite = 1
====
